---- MODULE Spec2Model ----
(***************************************************************************)
(* Qualitative-coding pipeline: the resilient batched filter               *)
(* (Module2_filtering.py), the identity reconciliation of filter verdicts  *)
(* onto rows, the coverage validator (Module4_selective_coding.py) and the *)
(* stage sequence of run.py.                                               *)
(*                                                                         *)
(* Texts are sequences of one-character strings, so that str.strip() is a  *)
(* computation.  A Python dict is a function whose DOMAIN is its key set.  *)
(***************************************************************************)
EXTENDS Integers, Sequences, FiniteSets, TLC

VARIABLES
    pc,                     \* position of the running function
    unique_codes,           \* unique_codes: List[str]
    batch_size,             \* batch_size parameter
    max_retries_each_batch, \* max_retries_each_batch parameter
    id2retain,              \* Dict[int, bool]
    id2reason,              \* Dict[int, str]
    stack,                  \* call stack of process_range, innermost last
    s,                      \* loop variable of the top-level batch loop
    poison,                 \* 0: unconstrained oracle; p >= 1: item p is poison
                            \* (no item when p exceeds the number of codes)
    truth,                  \* the verdict a well-behaved oracle gives per item
    arg,                    \* the arguments of the function being applied
    res,                    \* its return value
    idx,                    \* idx of run_open_coding_from_text's loop
    open_attempt,           \* attempt of open_code_answer's retry loop
    open_df,                \* the open_code column of open_df, one value per row
    views,                  \* what build_filter_outputs_from_open_df returned
    axial_codes,            \* the axial_code column of axial_summary
    selective_result,       \* selective_result of main
    storyline_result,       \* storyline_result of main
    written,                \* the output files written so far
    abort_cause             \* what raised out of main, "" while nothing has

vars == <<pc, unique_codes, batch_size, max_retries_each_batch, id2retain,
          id2reason, stack, s, poison, truth, arg, res, open_df, views,
          axial_codes, selective_result, storyline_result, written, abort_cause,
          idx, open_attempt>>

\* the variables the filter does not touch
openVars == <<idx, open_attempt>>
funcVars == <<arg, res, openVars>>
runVars == <<open_df, views, axial_codes, selective_result, storyline_result,
             written, abort_cause>>

----------------------------------------------------------------------------
(* Bounds of the model *)

MaxCodes == 3
MaxBatch == 3
MaxRetries == 2
MaxReply == 1
MaxEntries == 2
MaxUnique == 2
MaxRows == 2
MaxConcepts == 2
MaxCovered == 3

----------------------------------------------------------------------------
(* Texts and str.strip() *)

Blank == " "

RECURSIVE lstrip(_)
lstrip(t) == IF t # <<>> /\ Head(t) = Blank THEN lstrip(Tail(t)) ELSE t

RECURSIVE rstrip(_)
rstrip(t) ==
    IF t # <<>> /\ t[Len(t)] = Blank THEN rstrip(SubSeq(t, 1, Len(t) - 1)) ELSE t

strip(t) == rstrip(lstrip(t))

\* Four pairwise distinct, stripped, non-empty code texts
SampleCodes == << <<"a">>, <<"b">>, <<"a", "b">>, <<"b", "a">> >>

----------------------------------------------------------------------------
(* Reason texts.  The oracle's reason texts are the tokens of OracleReasons; *)
(* str(...).strip() maps the blank token to the empty string.                *)

REASON_NOT_RETURNED == "model_did_not_return_item"
REASON_SINGLE_FAILED == "api_or_parse_failure_single"
REASON_MISSING_VERDICT == "no_result_returned"

strip_reason(r) == IF r = " " THEN "" ELSE r

\* One entry of the reply's "filtering" list.  idnum = FALSE: int(item.get("id"))
\* raises (entry is no dict, id absent, id not numeric).  has_reason = FALSE: the
\* entry carries no "exclude_reason" key.
Entry(idnum, id, retain, has_reason, reason) ==
    [idnum |-> idnum, id |-> id, retain |-> retain,
     has_reason |-> has_reason, exclude_reason |-> reason]

Verdict(id, retain, reason) == [id |-> id, retain |-> retain, exclude_reason |-> reason]

----------------------------------------------------------------------------
(* _normalize_filtering_result *)

\* item.get("exclude_reason", "") then str(...).strip()
entry_reason(item) == IF item.has_reason THEN strip_reason(item.exclude_reason) ELSE ""

\* the verdict appended for an accepted entry
entry_verdict(item) ==
    LET retain == item.retain
        reason == entry_reason(item)
    IN  Verdict(item.id, retain, IF retain THEN "" ELSE reason)

\* is the entry skipped by the loop (continue)?
entry_skipped(item, n, seen) ==
    \/ ~item.idnum
    \/ item.id < 1
    \/ item.id > n
    \/ item.id \in seen

\* mutant: ids the reply left out are not filled in
fill_defaults_skipped(out, seen, bid, n) == out

RECURSIVE fill_defaults(_, _, _, _)
fill_defaults(out, seen, bid, n) ==
    IF bid > n THEN out
    ELSE IF bid \notin seen
    THEN fill_defaults(Append(out, Verdict(bid, FALSE, REASON_NOT_RETURNED)), seen, bid + 1, n)
    ELSE fill_defaults(out, seen, bid + 1, n)

\* the verdicts of out whose id is not bid
RECURSIVE without_id(_, _, _, _)
without_id(out, bid, k, kept) ==
    IF k > Len(out) THEN kept
    ELSE without_id(out, bid, k + 1, IF out[k].id = bid THEN kept ELSE Append(kept, out[k]))

\* mutant: a later entry for an id replaces the earlier one
RECURSIVE scan_entries_last_wins(_, _, _, _, _)
scan_entries_last_wins(items, n, k, seen, out) ==
    IF k > Len(items) THEN fill_defaults(out, seen, 1, n)
    ELSE IF entry_skipped(items[k], n, {})
    THEN scan_entries_last_wins(items, n, k + 1, seen, out)
    ELSE scan_entries_last_wins(items, n, k + 1, seen \cup {items[k].id},
            Append(without_id(out, items[k].id, 1, <<>>), entry_verdict(items[k])))

\* the scan loop over data["filtering"], from its k-th entry on, with the
\* loop's `seen` and `out` so far; the default-fill loop follows it
RECURSIVE scan_entries(_, _, _, _, _)
scan_entries(items, n, k, seen, out) ==
    IF k > Len(items) THEN fill_defaults(out, seen, 1, n)
    ELSE IF entry_skipped(items[k], n, seen) THEN scan_entries(items, n, k + 1, seen, out)
    ELSE scan_entries(items, n, k + 1, seen \cup {items[k].id},
                      Append(out, entry_verdict(items[k])))

\* out.sort(key=lambda x: x["id"]): a stable insertion sort.
\* insert_by_id puts v after the last element of `sorted` whose id is <= v.id
RECURSIVE insert_by_id(_, _, _)
insert_by_id(sorted, v, k) ==
    IF k = 0 \/ sorted[k].id <= v.id
    THEN SubSeq(sorted, 1, k) \o <<v>> \o SubSeq(sorted, k + 1, Len(sorted))
    ELSE insert_by_id(sorted, v, k - 1)

RECURSIVE sort_from(_, _, _)
sort_from(out, k, sorted) ==
    IF k > Len(out) THEN sorted
    ELSE sort_from(out, k + 1, insert_by_id(sorted, out[k], Len(sorted)))

sort_by_id(out) == sort_from(out, 1, <<>>)

\* data: [kind, filtering].  kind "empty": {} (also what an unparsable reply
\* becomes); "nolist": no "filtering" key or a value that is no list;
\* "list": data["filtering"] is the list `filtering`.
normalize_filtering_result(data, n) ==
    IF data.kind # "list" THEN <<>>
    ELSE sort_by_id(scan_entries(data.filtering, n, 1, {}, <<>>))

----------------------------------------------------------------------------
(* Python dicts *)

EmptyDict == << >>

dict_put(d, k, v) == [x \in (DOMAIN d) \cup {k} |-> IF x = k THEN v ELSE d[x]]

dict_get(d, k, default) == IF k \in DOMAIN d THEN d[k] ELSE default

\* mutant: enumerate() without the + 1
id2code_zero_based(codes) == [i \in 0..(Len(codes) - 1) |-> codes[i + 1]]

\* id2code = {i + 1: code for i, code in enumerate(unique_codes)}
id2code_of(codes) == [i \in 1..Len(codes) |-> codes[i]]

id2code == id2code_of(unique_codes)

----------------------------------------------------------------------------
(* The oracle: what one _call_filter_batch on a batch of n items can do. *)
(* kind "raise": requests.post / raise_for_status / the envelope access  *)
(* raises.  Otherwise the value is safe_parse_json(raw_text) or {}.      *)

Reply(kind, filtering) == [kind |-> kind, filtering |-> filtering]

FailReplies == {Reply("raise", <<>>), Reply("empty", <<>>), Reply("nolist", <<>>)}

\* what an entry can say besides its id: retain, and an exclude_reason that is
\* absent, empty or a text
EntryBodies ==
    {[retain |-> r, has_reason |-> FALSE, exclude_reason |-> ""] : r \in BOOLEAN}
    \cup {[retain |-> r, has_reason |-> TRUE, exclude_reason |-> x] :
              r \in BOOLEAN, x \in {"", "r"}}

FilterEntries(n) ==
    {Entry(FALSE, 0, FALSE, FALSE, "")}
    \cup {Entry(TRUE, i, b.retain, b.has_reason, b.exclude_reason) :
              i \in 0..(n + 1), b \in EntryBodies}

SeqsUpTo(S, k) == UNION {[1..m -> S] : m \in 0..k}

\* replies whose list is short: partial, out-of-range, non-numeric, repeated ids
ListReplies(n) == {Reply("list", f) : f \in SeqsUpTo(FilterEntries(n), MaxReply)}

\* replies that carry one entry per local id 1..n, with any verdicts
CompleteReplies(n) ==
    {Reply("list", [i \in 1..n |->
                      Entry(TRUE, i, b[i].retain, b[i].has_reason, b[i].exclude_reason)]) :
        b \in [1..n -> EntryBodies]}

\* the reply of a well-behaved oracle for the items start_idx+1..end_idx: one
\* entry per item it lists, in item order
RECURSIVE listed_entries(_, _, _, _)
listed_entries(start_idx, n, i, entries) ==
    IF i > n THEN entries
    ELSE listed_entries(start_idx, n, i + 1,
            IF truth[start_idx + i].listed
            THEN Append(entries, Entry(TRUE, i, truth[start_idx + i].retain, TRUE,
                                       truth[start_idx + i].exclude_reason))
            ELSE entries)

CorrectReply(start_idx, n) == Reply("list", listed_entries(start_idx, n, 1, <<>>))

OracleReplies(start_idx, n) ==
    IF poison = 0 THEN FailReplies \cup ListReplies(n) \cup CompleteReplies(n)
    ELSE IF poison \in (start_idx + 1)..(start_idx + n) THEN FailReplies
    ELSE {CorrectReply(start_idx, n)}

----------------------------------------------------------------------------
(* process_range *)

Frame(start_idx, end_idx, attempt, phase) ==
    [start_idx |-> start_idx, end_idx |-> end_idx, attempt |-> attempt, phase |-> phase]

Min(a, b) == IF a < b THEN a ELSE b

\* n = len(unique_codes[start_idx:end_idx]); a Python slice is clamped to the list
range_len(start_idx, end_idx) ==
    LET stop == Min(end_idx, Len(unique_codes))
    IN  IF stop > start_idx THEN stop - start_idx ELSE 0

\* mutant: the range is split before its last item
bisect_mid_last(start_idx, n) == start_idx + n - 1

\* mid = start_idx + n // 2
bisect_mid(start_idx, n) == start_idx + (n \div 2)

Top(stk) == stk[Len(stk)]
Pop(stk) == SubSeq(stk, 1, Len(stk) - 1)
SetTop(stk, f) == [stk EXCEPT ![Len(stk)] = f]

\* return_from(stk): the stack once the innermost call has returned: its
\* caller continues with the right half (after the left one) or returns too.
\* call_range(stk, a, b): the stack once process_range(a, b) has been entered;
\* a range with n == 0 returns at once.
RECURSIVE return_from(_), call_range(_, _, _)
return_from(stk) ==
    LET rest == Pop(stk)
    IN  IF rest = <<>> THEN <<>>
        ELSE LET parent == Top(rest)
                 n == range_len(parent.start_idx, parent.end_idx)
             IN  IF parent.phase = "left"
                 THEN call_range(SetTop(rest, [parent EXCEPT !.phase = "right"]),
                                 bisect_mid(parent.start_idx, n), parent.end_idx)
                 ELSE return_from(rest)

call_range(stk, start_idx, end_idx) ==
    LET entered == Append(stk, Frame(start_idx, end_idx, 0, "try"))
    IN  IF range_len(start_idx, end_idx) = 0 THEN return_from(entered) ELSE entered

\* mutant: a reply that does not list every item counts as a failed attempt
attempt_filtering_strict(reply, n) ==
    IF reply.kind = "raise" \/ Len(reply.filtering) < n
    THEN <<>> ELSE normalize_filtering_result(reply, n)

\* one attempt's value of `filtering`; <<>> also stands for an attempt that raised
attempt_filtering(reply, n) ==
    IF reply.kind = "raise" THEN <<>> ELSE normalize_filtering_result(reply, n)

\* for item in filtering: gid = global_ids[bid - 1]; id2retain[gid] = ...
\* mutant: the batch-local id is used as the global id
RECURSIVE record_retain_local(_, _, _, _)
record_retain_local(d, filtering, start_idx, k) ==
    IF k = 0 THEN d
    ELSE dict_put(record_retain_local(d, filtering, start_idx, k - 1),
                  filtering[k].id, filtering[k].retain)

RECURSIVE record_retain(_, _, _, _)
record_retain(d, filtering, start_idx, k) ==
    IF k = 0 THEN d
    ELSE dict_put(record_retain(d, filtering, start_idx, k - 1),
                  start_idx + filtering[k].id, filtering[k].retain)

\* mutant: the reason goes to the id before the item's global id
RECURSIVE record_reason_shifted(_, _, _, _)
record_reason_shifted(d, filtering, start_idx, k) ==
    IF k = 0 THEN d
    ELSE dict_put(record_reason_shifted(d, filtering, start_idx, k - 1),
                  start_idx + filtering[k].id - 1, strip_reason(filtering[k].exclude_reason))

RECURSIVE record_reason(_, _, _, _)
record_reason(d, filtering, start_idx, k) ==
    IF k = 0 THEN d
    ELSE dict_put(record_reason(d, filtering, start_idx, k - 1),
                  start_idx + filtering[k].id, strip_reason(filtering[k].exclude_reason))

\* mutant: the retry loop runs one attempt more
attempts_left_inclusive(attempt) == attempt <= max_retries_each_batch

\* mutant: the retry loop runs twice the configured attempts
attempts_left_doubled(attempt) == attempt < 2 * max_retries_each_batch

\* does the retry loop run another attempt?
attempts_left(attempt) == attempt < max_retries_each_batch

\* mutant: the cooldown follows every return of process_range
after_step_sleeps(stk) == "sleep"

\* where the top-level loop stands once the stack is stk
after_step(stk) == IF stk = <<>> THEN "sleep" ELSE "batch"

AttemptSucceeds ==
    /\ pc = "batch"
    /\ LET f == Top(stack)
           n == range_len(f.start_idx, f.end_idx)
       IN  /\ f.phase = "try"
           /\ attempts_left(f.attempt)
           /\ \E reply \in OracleReplies(f.start_idx, n) :
                LET filtering == attempt_filtering(reply, n)
                IN  /\ filtering # <<>>
                    /\ id2retain' = record_retain(id2retain, filtering, f.start_idx, Len(filtering))
                    /\ id2reason' = record_reason(id2reason, filtering, f.start_idx, Len(filtering))
           /\ stack' = return_from(stack)
           /\ pc' = after_step(stack')
    /\ UNCHANGED <<unique_codes, batch_size, max_retries_each_batch, s, poison, truth, funcVars, runVars>>

AttemptFails ==
    /\ pc = "batch"
    /\ LET f == Top(stack)
           n == range_len(f.start_idx, f.end_idx)
       IN  /\ f.phase = "try"
           /\ attempts_left(f.attempt)
           /\ \E reply \in OracleReplies(f.start_idx, n) :
                attempt_filtering(reply, n) = <<>>
           /\ stack' = SetTop(stack, [f EXCEPT !.attempt = f.attempt + 1])
    /\ UNCHANGED <<pc, unique_codes, batch_size, max_retries_each_batch, id2retain,
                   id2reason, s, poison, truth, funcVars, runVars>>

\* mutant: a failed single item is retried from scratch instead of absorbed
SingleRetriedForever ==
    /\ pc = "batch"
    /\ LET f == Top(stack)
           n == range_len(f.start_idx, f.end_idx)
       IN  /\ f.phase = "try"
           /\ ~attempts_left(f.attempt)
           /\ n = 1
           /\ f.attempt > 0
           /\ stack' = SetTop(stack, [f EXCEPT !.attempt = 0])
    /\ UNCHANGED <<pc, unique_codes, batch_size, max_retries_each_batch, id2retain,
                   id2reason, s, poison, truth, funcVars, runVars>>

\* mutant: a failed single item is kept (retain = true, no reason)
SingleDefaultRetained ==
    /\ pc = "batch"
    /\ LET f == Top(stack)
           n == range_len(f.start_idx, f.end_idx)
           gid == f.start_idx + 1
       IN  /\ f.phase = "try"
           /\ ~attempts_left(f.attempt)
           /\ n = 1
           /\ id2retain' = dict_put(id2retain, gid, TRUE)
           /\ id2reason' = dict_put(id2reason, gid, "")
           /\ stack' = return_from(stack)
           /\ pc' = after_step(stack')
    /\ UNCHANGED <<unique_codes, batch_size, max_retries_each_batch, s, poison, truth, funcVars, runVars>>

SingleDefault ==
    /\ pc = "batch"
    /\ LET f == Top(stack)
           n == range_len(f.start_idx, f.end_idx)
           gid == f.start_idx + 1
       IN  /\ f.phase = "try"
           /\ ~attempts_left(f.attempt)
           /\ n = 1
           /\ id2retain' = dict_put(id2retain, gid, FALSE)
           /\ id2reason' = dict_put(id2reason, gid, REASON_SINGLE_FAILED)
           /\ stack' = return_from(stack)
           /\ pc' = after_step(stack')
    /\ UNCHANGED <<unique_codes, batch_size, max_retries_each_batch, s, poison, truth, funcVars, runVars>>

\* mutant: a failed batch of several items is not bisected; its first item
\* takes the failure default and the call returns
BisectSkipped ==
    /\ pc = "batch"
    /\ LET f == Top(stack)
           n == range_len(f.start_idx, f.end_idx)
           gid == f.start_idx + 1
       IN  /\ f.phase = "try"
           /\ ~attempts_left(f.attempt)
           /\ n # 1
           /\ id2retain' = dict_put(id2retain, gid, FALSE)
           /\ id2reason' = dict_put(id2reason, gid, REASON_SINGLE_FAILED)
           /\ stack' = return_from(stack)
           /\ pc' = after_step(stack')
    /\ UNCHANGED <<unique_codes, batch_size, max_retries_each_batch, s, poison, truth, funcVars, runVars>>

Bisect ==
    /\ pc = "batch"
    /\ LET f == Top(stack)
           n == range_len(f.start_idx, f.end_idx)
       IN  /\ f.phase = "try"
           /\ ~attempts_left(f.attempt)
           /\ n # 1
           /\ stack' = call_range(SetTop(stack, [f EXCEPT !.phase = "left"]),
                                  f.start_idx, bisect_mid(f.start_idx, n))
           /\ pc' = after_step(stack')
    /\ UNCHANGED <<unique_codes, batch_size, max_retries_each_batch, id2retain,
                   id2reason, s, poison, truth, funcVars, runVars>>

----------------------------------------------------------------------------
(* filter_unique_codes_with_batching: the top-level batch loop *)

StartBatch ==
    /\ pc = "loop"
    /\ s < Len(unique_codes)
    /\ stack' = call_range(<<>>, s, Min(s + batch_size, Len(unique_codes)))
    /\ pc' = after_step(stack')
    /\ UNCHANGED <<unique_codes, batch_size, max_retries_each_batch, id2retain,
                   id2reason, s, poison, truth, funcVars, runVars>>

Cooldown ==
    /\ pc = "sleep"
    /\ s' = s + batch_size
    /\ pc' = "loop"
    /\ UNCHANGED <<unique_codes, batch_size, max_retries_each_batch, id2retain,
                   id2reason, stack, poison, truth, funcVars, runVars>>

ReturnMaps ==
    /\ pc = "loop"
    /\ s >= Len(unique_codes)
    /\ pc' = "done"
    /\ UNCHANGED <<unique_codes, batch_size, max_retries_each_batch, id2retain,
                   id2reason, stack, s, poison, truth, funcVars, runVars>>

WellFormedVerdicts == {[retain |-> TRUE, exclude_reason |-> "", listed |-> TRUE],
                       [retain |-> FALSE, exclude_reason |-> "r", listed |-> TRUE]}

NoTruth == [i \in 1..MaxCodes |-> [retain |-> TRUE, exclude_reason |-> "", listed |-> TRUE]]

\* the variables of the stages that are not running
IdleOpen == idx = 0 /\ open_attempt = 0

IdleFunc == arg = <<>> /\ res = <<>> /\ IdleOpen

IdleRun ==
    /\ open_df = <<>>
    /\ views = <<>>
    /\ axial_codes = <<>>
    /\ selective_result = <<>>
    /\ storyline_result = <<>>
    /\ written = {}
    /\ abort_cause = ""

InitFilter ==
    /\ IdleFunc
    /\ IdleRun
    /\ pc = "loop"
    /\ \E n \in 0..MaxCodes : unique_codes = SubSeq(SampleCodes, 1, n)
    /\ batch_size \in 1..MaxBatch
    /\ max_retries_each_batch \in 0..MaxRetries
    /\ id2retain = EmptyDict
    /\ id2reason = EmptyDict
    /\ stack = <<>>
    /\ s = 0
    /\ poison \in 0..Len(unique_codes)
    /\ truth \in IF poison = 0 THEN {NoTruth} ELSE [1..MaxCodes -> WellFormedVerdicts]

NextFilter ==
    \/ StartBatch
    \/ AttemptSucceeds
    \/ AttemptFails
    \/ SingleDefault
    \/ Bisect
    \/ Cooldown
    \/ ReturnMaps

Spec == InitFilter /\ [][NextFilter]_vars

FairSpec == InitFilter /\ [][NextFilter]_vars /\ WF_vars(NextFilter)

----------------------------------------------------------------------------
(* Claims about filter_unique_codes_with_batching *)

NumCodes == Len(unique_codes)

HoldsSingleDefault(i) ==
    /\ i \in DOMAIN id2retain
    /\ i \in DOMAIN id2reason
    /\ id2retain[i] = FALSE
    /\ id2reason[i] = REASON_SINGLE_FAILED

\* C1: completeness.  Under every oracle behaviour the verdict maps never hold
\* a key outside 1..N, both maps have the same keys, and when the function
\* returns their key set is exactly 1..N.
C1_Completeness ==
    /\ DOMAIN id2retain \subseteq 1..NumCodes
    /\ DOMAIN id2reason \subseteq 1..NumCodes
    /\ pc = "done" => /\ DOMAIN id2retain = 1..NumCodes
                      /\ DOMAIN id2reason = 1..NumCodes

\* the oracle failed on every call: three codes in one batch, all bisected
\* down to the single-item default
C1_Witness ==
    /\ pc = "done"
    /\ poison = 0
    /\ NumCodes = 3
    /\ batch_size = 3
    /\ \A i \in 1..NumCodes : HoldsSingleDefault(i)

BatchItems == (s + 1)..Min(s + batch_size, NumCodes)

\* C2: bisection isolation.  With a retry bound of at least 1 and an oracle that
\* fails exactly on the requests containing the poison item, after a top-level
\* batch has been classified the poison item is the only item of the batch
\* holding the single-item failure default; every other item of the batch holds
\* the verdict the oracle gives for it.
C2_BisectionIsolation ==
    (pc = "sleep" /\ poison >= 1 /\ max_retries_each_batch >= 1) =>
        \A i \in BatchItems :
            IF i = poison THEN HoldsSingleDefault(i)
            ELSE /\ i \in DOMAIN id2retain
                 /\ i \in DOMAIN id2reason
                 /\ id2retain[i] = truth[i].retain
                 /\ id2reason[i] = truth[i].exclude_reason
                 /\ ~HoldsSingleDefault(i)

\* a batch of three with the poison item in the middle, the other two items
\* holding different oracle verdicts
C2_Witness ==
    /\ pc = "sleep"
    /\ poison = 2
    /\ max_retries_each_batch >= 1
    /\ BatchItems = 1..3
    /\ HoldsSingleDefault(2)
    /\ id2retain[1] = TRUE
    /\ id2retain[3] = FALSE
    /\ id2reason[3] = "r"

StrictlyShrinking ==
    \A k \in 2..Len(stack) :
        /\ stack[k - 1].start_idx <= stack[k].start_idx
        /\ stack[k].end_idx <= stack[k - 1].end_idx
        /\ stack[k].end_idx - stack[k].start_idx
             < stack[k - 1].end_idx - stack[k - 1].start_idx
        /\ stack[k].end_idx - stack[k].start_idx >= 1

\* C3: termination.  Every call on the stack works on a strictly smaller range
\* than its caller, and under every oracle behaviour the function eventually
\* returns.
C3_Termination == [](StrictlyShrinking) /\ <>(pc = "done")

\* the run has returned although every call failed up to the last retry
C3_Witness ==
    /\ pc = "done"
    /\ poison = 0
    /\ NumCodes = MaxCodes
    /\ batch_size = MaxBatch
    /\ max_retries_each_batch = MaxRetries
    /\ \A i \in 1..NumCodes : HoldsSingleDefault(i)

\* C5: after filtering, every unique code's exclude_reason is non-empty if and
\* only if its retain value is false.
C5_ReasonIffExcluded ==
    \A i \in (DOMAIN id2retain) \cap (DOMAIN id2reason) :
        (id2reason[i] # "") <=> (id2retain[i] = FALSE)

----------------------------------------------------------------------------
(* _normalize_filtering_result applied to one parsed reply *)

NormBodies ==
    {[retain |-> r, has_reason |-> FALSE, exclude_reason |-> ""] : r \in BOOLEAN}
    \cup {[retain |-> r, has_reason |-> TRUE, exclude_reason |-> x] :
              r \in BOOLEAN, x \in {"", " ", "r"}}

NormEntries(n) ==
    {Entry(FALSE, 0, FALSE, FALSE, "")}
    \cup {Entry(TRUE, i, b.retain, b.has_reason, b.exclude_reason) :
              i \in 0..(n + 1), b \in NormBodies}

NormData(n) ==
    {Reply("empty", <<>>), Reply("nolist", <<>>)}
    \cup {Reply("list", f) : f \in SeqsUpTo(NormEntries(n), MaxEntries)}

InitNorm ==
    /\ pc = "normalize"
    /\ \E n \in 1..MaxCodes : \E d \in NormData(n) : arg = [data |-> d, batch_size |-> n]
    /\ res = <<>>
    /\ IdleOpen
    /\ IdleRun
    /\ unique_codes = <<>>
    /\ batch_size = 1
    /\ max_retries_each_batch = 0
    /\ id2retain = EmptyDict
    /\ id2reason = EmptyDict
    /\ stack = <<>>
    /\ s = 0
    /\ poison = 0
    /\ truth = NoTruth

filterVars == <<unique_codes, batch_size, max_retries_each_batch, id2retain,
                id2reason, stack, s, poison, truth>>

Normalize ==
    /\ pc = "normalize"
    /\ res' = normalize_filtering_result(arg.data, arg.batch_size)
    /\ pc' = "normalized"
    /\ UNCHANGED <<arg, openVars, filterVars, runVars>>

NextNorm == Normalize

SpecNorm == InitNorm /\ [][NextNorm]_vars

\* C4: normalizer totality.  For n >= 1 and a parsed reply that carries a list
\* under "filtering", the result has exactly n verdicts and its k-th verdict
\* has id k: ids 1..n ascending, each exactly once.
C4_NormalizerTotality ==
    (pc = "normalized" /\ arg.data.kind = "list") =>
        /\ Len(res) = arg.batch_size
        /\ \A k \in 1..Len(res) : res[k].id = k

\* a reply that lists id 3 before id 1, for a batch of 3: id 2 is filled in
C4_Witness ==
    /\ pc = "normalized"
    /\ arg.batch_size = 3
    /\ arg.data.kind = "list"
    /\ Len(arg.data.filtering) = 2
    /\ arg.data.filtering[1].idnum /\ arg.data.filtering[1].id = 3
    /\ arg.data.filtering[2].idnum /\ arg.data.filtering[2].id = 1
    /\ arg.data.filtering[2].retain
    /\ Len(res) = 3
    /\ res[1].retain
    /\ res[2].exclude_reason = REASON_NOT_RETURNED

----------------------------------------------------------------------------
(* build_filter_outputs_from_open_df *)

\* the code_id of a row whose text is not in the lookup: the code returns ""
\* (map_code_id) or None (map_retain, map_reason), both false in `if cid`
Unresolved == 0

REASON_NOT_IN_UNIQUE == "open_code_not_in_unique_set"

\* a cell of the open_code column: a string, or something that is no string
StrCell(t) == [is_str |-> TRUE, text |-> t]
NonStrCell == [is_str |-> FALSE, text |-> <<>>]

\* the least key of a non-empty set of integer keys
MinKey(keys) == CHOOSE k \in keys : \A j \in keys : k <= j

\* code2id = {v: k for k, v in id2code.items()}: over the keys in insertion
\* order, a later key replacing an earlier one with the same text
RECURSIVE code2id_from(_, _, _)
code2id_from(d, keys, acc) ==
    IF keys = {} THEN acc
    ELSE code2id_from(d, keys \ {MinKey(keys)}, dict_put(acc, d[MinKey(keys)], MinKey(keys)))

code2id_of(d) == code2id_from(d, DOMAIN d, EmptyDict)

map_code_id(code2id, x) ==
    IF ~x.is_str THEN Unresolved ELSE dict_get(code2id, strip(x.text), Unresolved)

map_retain(code2id, x) ==
    IF ~x.is_str THEN FALSE
    ELSE IF dict_get(code2id, strip(x.text), Unresolved) # Unresolved
         THEN dict_get(id2retain, dict_get(code2id, strip(x.text), Unresolved), FALSE)
         ELSE FALSE

map_reason(code2id, x) ==
    IF ~x.is_str THEN ""
    ELSE IF dict_get(code2id, strip(x.text), Unresolved) # Unresolved
         THEN dict_get(id2reason, dict_get(code2id, strip(x.text), Unresolved),
                       REASON_NOT_IN_UNIQUE)
         ELSE REASON_NOT_IN_UNIQUE

\* one row of unique_df, per key of id2code in insertion order
RECURSIVE unique_rows(_, _, _)
unique_rows(d, keys, rows) ==
    IF keys = {} THEN rows
    ELSE unique_rows(d, keys \ {MinKey(keys)},
            Append(rows, [code_id |-> MinKey(keys),
                          open_code |-> d[MinKey(keys)],
                          retain |-> dict_get(id2retain, MinKey(keys), FALSE),
                          exclude_reason |->
                              strip_reason(dict_get(id2reason, MinKey(keys),
                                                    REASON_MISSING_VERDICT))]))

\* unique_df[unique_df["retain"] == flag]
RECURSIVE rows_with_retain(_, _, _, _)
rows_with_retain(rows, flag, k, kept) ==
    IF k > Len(rows) THEN kept
    ELSE rows_with_retain(rows, flag, k + 1,
                          IF rows[k].retain = flag THEN Append(kept, rows[k]) ELSE kept)

row_view(code2id, cells) ==
    [k \in 1..Len(cells) |->
        [open_code |-> cells[k],
         code_id |-> map_code_id(code2id, cells[k]),
         retain |-> map_retain(code2id, cells[k]),
         exclude_reason |-> map_reason(code2id, cells[k])]]

\* pd.DataFrame([]) has no columns: unique_df["retain"] raises KeyError when
\* id2code is empty
BuildFilterOutputs ==
    /\ pc = "done"
    /\ IF DOMAIN id2code = {}
       THEN /\ pc' = "aborted"
            /\ abort_cause' = "build_filter_outputs"
            /\ UNCHANGED views
       ELSE /\ pc' = "filtered"
            /\ views' = [unique_df |-> unique_rows(id2code, DOMAIN id2code, <<>>),
                         retain_unique_df |->
                             rows_with_retain(unique_rows(id2code, DOMAIN id2code, <<>>),
                                              TRUE, 1, <<>>),
                         exclude_unique_df |->
                             rows_with_retain(unique_rows(id2code, DOMAIN id2code, <<>>),
                                              FALSE, 1, <<>>),
                         code2id |-> code2id_of(id2code),
                         row_df |-> row_view(code2id_of(id2code), open_df)]
            /\ UNCHANGED abort_cause
    /\ UNCHANGED <<filterVars, funcVars, open_df, axial_codes, selective_result,
                   storyline_result, written>>

\* texts as the open-coding stage returns them: stripped, possibly empty
StrippedTexts == {<<>>, <<"a">>, <<"b">>, <<"a", "b">>}

Cells == {StrCell(t) : t \in StrippedTexts} \cup {NonStrCell}

StoredVerdicts == {[retain |-> TRUE, exclude_reason |-> ""],
                   [retain |-> FALSE, exclude_reason |-> "r"],
                   [retain |-> FALSE, exclude_reason |-> REASON_SINGLE_FAILED]}

InitRecon ==
    /\ pc = "done"
    /\ IdleFunc
    /\ unique_codes \in SeqsUpTo(StrippedTexts, MaxUnique)
    /\ \E v \in [1..Len(unique_codes) -> StoredVerdicts] :
          /\ id2retain = [i \in 1..Len(unique_codes) |-> v[i].retain]
          /\ id2reason = [i \in 1..Len(unique_codes) |-> v[i].exclude_reason]
    /\ open_df \in SeqsUpTo(Cells, MaxRows) \ {<<>>}
    /\ views = <<>>
    /\ axial_codes = <<>>
    /\ selective_result = <<>>
    /\ storyline_result = <<>>
    /\ written = {}
    /\ abort_cause = ""
    /\ batch_size = 1
    /\ max_retries_each_batch = 0
    /\ stack = <<>>
    /\ s = 0
    /\ poison = 0
    /\ truth = NoTruth

NextRecon == BuildFilterOutputs

SpecRecon == InitRecon /\ [][NextRecon]_vars

PairwiseDistinct(codes) ==
    \A i, j \in 1..Len(codes) : codes[i] = codes[j] => i = j

\* C7: id-mapping bijection.  For K pairwise distinct unique codes, id2code has
\* the keys 1..K in order of appearance, and the text-to-id lookup built from it
\* is its inverse in both directions.
C7_IdMappingBijection ==
    (pc = "filtered" /\ PairwiseDistinct(unique_codes)) =>
        /\ DOMAIN id2code = 1..Len(unique_codes)
        /\ \A i \in 1..Len(unique_codes) : id2code[i] = unique_codes[i]
        /\ DOMAIN views.code2id = {unique_codes[i] : i \in 1..Len(unique_codes)}
        /\ \A i \in DOMAIN id2code :
              /\ id2code[i] \in DOMAIN views.code2id
              /\ views.code2id[id2code[i]] = i
        /\ \A t \in DOMAIN views.code2id :
              /\ views.code2id[t] \in DOMAIN id2code
              /\ id2code[views.code2id[t]] = t

C7_Witness ==
    /\ pc = "filtered"
    /\ unique_codes = << <<"b">>, <<"a">> >>
    /\ views.code2id[<<"b">>] = 1
    /\ views.code2id[<<"a">>] = 2

RowResolved(row) ==
    /\ row.open_code.is_str
    /\ \E i \in 1..Len(unique_codes) : unique_codes[i] = row.open_code.text

\* C8: a row whose open_code is no string or no key of the lookup gets the
\* unresolved marker and retain = false, without raising and without another
\* code's verdict; a row whose text is in the lookup gets that code's id, retain
\* value and reason.
C8_RowJoin ==
    /\ pc # "aborted"
    /\ pc = "filtered" =>
          /\ Len(views.row_df) = Len(open_df)
          /\ \A k \in 1..Len(views.row_df) :
                LET row == views.row_df[k]
                IN  IF RowResolved(row)
                    THEN /\ row.code_id \in 1..Len(unique_codes)
                         /\ unique_codes[row.code_id] = row.open_code.text
                         /\ row.retain = id2retain[row.code_id]
                         /\ row.exclude_reason = id2reason[row.code_id]
                    ELSE /\ row.code_id = Unresolved
                         /\ row.retain = FALSE
                         /\ row.exclude_reason \in {"", REASON_NOT_IN_UNIQUE}

----------------------------------------------------------------------------
(* validate_coverage *)

\* the known axial codes are the axial_code column of axial_summary: stripped,
\* non-empty, one row per code, in groupby's sorted order
KnownAxialLists == {<<>>, << <<"a">> >>, << <<"b">> >>, << <<"a">>, <<"b">> >>}

\* what the oracle can list under covered_axial_codes: known codes, a padded
\* one, an unknown one, the empty text
CoveredTexts == {<<"a">>, <<"b">>, <<" ", "a">>, <<"c">>, <<>>}

\* seen: the covered codes of all concepts in order, each stripped
RECURSIVE seen_codes(_, _, _, _)
seen_codes(concepts, c, a, seen) ==
    IF c > Len(concepts) THEN seen
    ELSE IF a > Len(concepts[c]) THEN seen_codes(concepts, c + 1, 1, seen)
    ELSE seen_codes(concepts, c, a + 1, Append(seen, strip(concepts[c][a])))

\* the covered codes of all concepts in order, as listed
RECURSIVE seen_codes_raw(_, _, _, _)
seen_codes_raw(concepts, c, a, seen) ==
    IF c > Len(concepts) THEN seen
    ELSE IF a > Len(concepts[c]) THEN seen_codes_raw(concepts, c + 1, 1, seen)
    ELSE seen_codes_raw(concepts, c, a + 1, Append(seen, concepts[c][a]))

SeqRange(q) == {q[i] : i \in 1..Len(q)}

Count(q, x) == Cardinality({i \in 1..Len(q) : q[i] = x})

\* missing = [a for a in axial_codes if a not in seen_set]
\* mutant: membership is tested in the known set instead of the seen set
missing_codes_in_known(codes, seen_set, k, missing) == <<>>

RECURSIVE missing_codes(_, _, _, _)
missing_codes(codes, seen_set, k, missing) ==
    IF k > Len(codes) THEN missing
    ELSE missing_codes(codes, seen_set, k + 1,
                       IF codes[k] \notin seen_set THEN Append(missing, codes[k])
                       ELSE missing)

\* extra = [a for a in seen_set if a not in axial_set]: in the set's iteration
\* order, which the code does not fix; kept as the set of its elements
extra_codes(seen_set, axial_set) == {a \in seen_set : a \notin axial_set}

\* dup = [k for k, v in Counter(seen).items() if v > 1 and k]: in order of
\* first occurrence
RECURSIVE dup_codes(_, _, _)
dup_codes(seen, k, dup) ==
    IF k > Len(seen) THEN dup
    ELSE dup_codes(seen, k + 1,
                   IF /\ Count(seen, seen[k]) > 1
                      /\ seen[k] # <<>>
                      /\ seen[k] \notin SeqRange(dup)
                   THEN Append(dup, seen[k]) ELSE dup)

\* result: [has_concepts, aggregate_concepts]; aggregate_concepts is the list
\* of the concepts' covered_axial_codes lists (an absent or null list is [])
validate_coverage(result, codes) ==
    LET concepts == IF result.has_concepts THEN result.aggregate_concepts ELSE <<>>
    IN  [missing |-> missing_codes(codes, SeqRange(seen_codes(concepts, 1, 1, <<>>)), 1, <<>>),
         extra |-> extra_codes(SeqRange(seen_codes(concepts, 1, 1, <<>>)), SeqRange(codes)),
         duplicated |-> dup_codes(seen_codes(concepts, 1, 1, <<>>), 1, <<>>)]

\* the lists of m lists of covered codes that hold at most `budget` codes in all
RECURSIVE ConceptLists(_, _)
ConceptLists(m, budget) ==
    IF m = 0 THEN {<<>>}
    ELSE UNION {{<<l>> \o rest : rest \in ConceptLists(m - 1, budget - Len(l))} :
                   l \in SeqsUpTo(CoveredTexts, budget)}

SelectiveResults ==
    {[has_concepts |-> FALSE, aggregate_concepts |-> <<>>]}
    \cup {[has_concepts |-> TRUE, aggregate_concepts |-> c] :
             c \in UNION {ConceptLists(m, MaxCovered) : m \in 0..MaxConcepts}}

InitCov ==
    /\ pc = "validate"
    /\ \E r \in SelectiveResults : \E codes \in KnownAxialLists :
          arg = [result |-> r, axial_codes |-> codes]
    /\ res = <<>>
    /\ IdleOpen
    /\ IdleRun
    /\ unique_codes = <<>>
    /\ batch_size = 1
    /\ max_retries_each_batch = 0
    /\ id2retain = EmptyDict
    /\ id2reason = EmptyDict
    /\ stack = <<>>
    /\ s = 0
    /\ poison = 0
    /\ truth = NoTruth

ValidateCoverage ==
    /\ pc = "validate"
    /\ res' = validate_coverage(arg.result, arg.axial_codes)
    /\ pc' = "validated"
    /\ UNCHANGED <<arg, openVars, filterVars, runVars>>

NextCov == ValidateCoverage

SpecCov == InitCov /\ [][NextCov]_vars

\* the covered codes as the concepts list them
ListedCodes == seen_codes_raw(arg.result.aggregate_concepts, 1, 1, <<>>)

\* the concepts list every known code but `dropped` exactly once, and nothing else
ListsAllBut(dropped) ==
    /\ arg.result.has_concepts
    /\ Len(ListedCodes) = Cardinality(SeqRange(arg.axial_codes) \ dropped)
    /\ \A a \in SeqRange(arg.axial_codes) \ dropped : Count(ListedCodes, a) = 1
    /\ \A a \in dropped : Count(ListedCodes, a) = 0

\* C10: partition check.  When the covered_axial_codes lists together hold every
\* known axial code exactly once and nothing else, missing, extra and duplicated
\* are empty; when they do so except for one known code that is left out, that
\* code is in missing.
C10_PartitionCheck ==
    pc = "validated" =>
        /\ ListsAllBut({}) =>
              /\ res.missing = <<>>
              /\ res.extra = {}
              /\ res.duplicated = <<>>
        /\ \A a \in SeqRange(arg.axial_codes) :
              ListsAllBut({a}) => a \in SeqRange(res.missing)

\* two known codes, one concept each
C10_Witness ==
    /\ pc = "validated"
    /\ arg.axial_codes = << <<"a">>, <<"b">> >>
    /\ arg.result.has_concepts
    /\ arg.result.aggregate_concepts = << << <<"b">> >>, << <<"a">> >> >>
    /\ res.missing = <<>>
    /\ res.extra = {}
    /\ res.duplicated = <<>>

----------------------------------------------------------------------------
(* main of run.py: the stages in sequence *)

RunBatchSize == 60
DefaultMaxRetries == 2

\* mutant: the first row's code is left out of all_codes
RECURSIVE all_codes_skip_first(_, _, _)
all_codes_skip_first(cells, k, codes) ==
    IF k > Len(cells) THEN codes
    ELSE all_codes_skip_first(cells, k + 1,
            IF k > 1 /\ cells[k].is_str /\ strip(cells[k].text) # <<>>
            THEN Append(codes, strip(cells[k].text)) ELSE codes)

\* all_codes = [str(c).strip() for c in ... if isinstance(c, str) and str(c).strip()]
RECURSIVE all_codes_of(_, _, _)
all_codes_of(cells, k, codes) ==
    IF k > Len(cells) THEN codes
    ELSE all_codes_of(cells, k + 1,
            IF cells[k].is_str /\ strip(cells[k].text) # <<>>
            THEN Append(codes, strip(cells[k].text)) ELSE codes)

\* list(dict.fromkeys(all_codes)): first occurrences, in order
RECURSIVE dedupe_in_order(_, _, _)
dedupe_in_order(codes, k, kept) ==
    IF k > Len(codes) THEN kept
    ELSE dedupe_in_order(codes, k + 1,
            IF codes[k] \in SeqRange(kept) THEN kept ELSE Append(kept, codes[k]))

\* what os.getenv("DEEPSEEK_API_KEY", "") can give: unset, blank, a key
EnvValues == {<<>>, <<" ">>, <<"k">>}

\* must_get_env: TRUE when it returns, FALSE when it raises RuntimeError
must_get_env(value) == strip(value) # <<>>

\* 0) Env Config: main raises before anything is read or written when the key
\* is unset or blank
EnvConfig ==
    /\ pc = "start"
    /\ \E value \in EnvValues :
          IF must_get_env(value)
          THEN pc' = "configured" /\ UNCHANGED abort_cause
          ELSE pc' = "aborted" /\ abort_cause' = "missing_env_var"
    /\ UNCHANGED <<filterVars, funcVars, open_df, views, axial_codes, selective_result,
                   storyline_result, written>>

\* Step 1: open(input_txt) raises FileNotFoundError when the transcript is
\* missing; otherwise run_open_coding_from_text gives one row per QA block,
\* open_code_answer returning a stripped string, possibly empty
OpenCoding ==
    /\ pc = "configured"
    /\ \/ /\ pc' = "aborted"
          /\ abort_cause' = "input_file_missing"
          /\ UNCHANGED <<open_df, written>>
       \/ /\ open_df' \in SeqsUpTo({StrCell(t) : t \in StrippedTexts}, MaxRows)
          /\ written' = written \cup {"open_coding.xlsx"}
          /\ pc' = "opened"
          /\ UNCHANGED abort_cause
    /\ UNCHANGED <<filterVars, funcVars, views, axial_codes, selective_result,
                   storyline_result>>

\* Step 2, up to the first batch: pd.DataFrame([]) has no open_code column
StartFiltering ==
    /\ pc = "opened"
    /\ IF open_df = <<>>
       THEN /\ pc' = "aborted"
            /\ abort_cause' = "open_df_without_rows"
            /\ UNCHANGED <<unique_codes, id2retain, id2reason, stack, s>>
       ELSE /\ pc' = "loop"
            /\ unique_codes' = dedupe_in_order(all_codes_of(open_df, 1, <<>>), 1, <<>>)
            /\ id2retain' = EmptyDict
            /\ id2reason' = EmptyDict
            /\ stack' = <<>>
            /\ s' = 0
            /\ UNCHANGED abort_cause
    /\ UNCHANGED <<batch_size, max_retries_each_batch, poison, truth, funcVars, open_df,
                   views, axial_codes, selective_result, storyline_result, written>>

AxialLabels == {<<>>, <<"a">>, <<"b">>}

\* sorted(set(...)) over the labels in use: groupby's key order
SortedLabels(labels) ==
    IF labels = {} THEN <<>>
    ELSE IF labels = {<<"a">>} THEN << <<"a">> >>
    ELSE IF labels = {<<"b">>} THEN << <<"b">> >>
    ELSE << <<"a">>, <<"b">> >>

\* Step 2's saves and Step 3: deepseek_axial_coding absorbs every failure of
\* its call (it returns {}), so each retained code ends with a label or with "";
\* axial_summary has one row per label in use
AxialStage ==
    /\ pc = "filtered"
    /\ \E id2axial \in [{r.code_id : r \in SeqRange(views.retain_unique_df)} -> AxialLabels] :
          axial_codes' = SortedLabels({id2axial[c] : c \in DOMAIN id2axial} \ {<<>>})
    /\ written' = written \cup {"filtering/*.xlsx", "axial/*.xlsx"}
    /\ pc' = "axial_done"
    /\ UNCHANGED <<filterVars, funcVars, open_df, views, selective_result,
                   storyline_result, abort_cause>>

\* the shapes of a selective reply that validate_coverage cannot walk:
\* aggregate_concepts a number, aggregate_concepts a string, an entry of it
\* that is no object, a covered_axial_codes that is a number
UnwalkableShapes ==
    {"concepts_number", "concepts_text", "entry_not_object", "covered_number"}

\* the concepts of a well-formed reply: no aggregate_concepts, no concept, one
\* concept covering every axial code, one covering an unknown code
WalkableConcepts ==
    {[has_concepts |-> FALSE, aggregate_concepts |-> <<>>],
     [has_concepts |-> TRUE, aggregate_concepts |-> <<>>],
     [has_concepts |-> TRUE, aggregate_concepts |-> <<axial_codes>>],
     [has_concepts |-> TRUE, aggregate_concepts |-> << <<<<"c">>>> >>]}

\* what deepseek_selective_coding can return: a well-formed reply, which may
\* carry a key _coverage_warning of its own (own_warning) and may hold a text
\* that UTF-8 cannot encode, such as a lone surrogate (encodable = FALSE); a
\* reply of an unwalkable shape; {"_raw_text": None} for an envelope whose
\* content is null
SelectiveReplies ==
    {[shape |-> "concepts", has_concepts |-> c.has_concepts,
      aggregate_concepts |-> c.aggregate_concepts,
      own_warning |-> w, encodable |-> e] :
         c \in WalkableConcepts, w \in BOOLEAN, e \in BOOLEAN}
    \cup {[shape |-> "content_null", has_concepts |-> FALSE, aggregate_concepts |-> <<>>,
           own_warning |-> FALSE, encodable |-> TRUE]}
    \cup {[shape |-> sh, has_concepts |-> TRUE, aggregate_concepts |-> <<>>,
           own_warning |-> FALSE, encodable |-> TRUE] :
             sh \in UnwalkableShapes}

\* f.write(selective_raw) raises TypeError when the raw text is None
raw_write_raises(r) == r.shape = "content_null"

\* the loops of validate_coverage raise TypeError or AttributeError
validate_coverage_raises(r) == r.shape \in UnwalkableShapes

HasFindings(cov) == cov.missing # <<>> \/ cov.extra # {} \/ cov.duplicated # <<>>

\* Step 4: deepseek_selective_coding has no try: a failed call raises out of
\* main, and so does a reply that parses to a non-empty JSON value that is no
\* object (result["_raw_text"] = raw).  open() has created the raw file when
\* f.write or validate_coverage raises, and the JSON file too when json.dump
\* raises UnicodeEncodeError.  _coverage_warning is only ever added: a key of
\* that name in the reply stays.
SelectiveStage ==
    /\ pc = "axial_done"
    /\ \/ /\ \E cause \in {"selective_oracle_error", "selective_reply_not_object"} :
                abort_cause' = cause
          /\ pc' = "aborted"
          /\ UNCHANGED <<selective_result, written>>
       \/ \E r \in SelectiveReplies :
             IF raw_write_raises(r) \/ validate_coverage_raises(r)
             THEN /\ abort_cause' = IF raw_write_raises(r)
                                    THEN "selective_raw_not_text"
                                    ELSE "selective_coverage_error"
                  /\ written' = written \cup {"selective/selective_coding_raw.txt"}
                  /\ pc' = "aborted"
                  /\ UNCHANGED selective_result
             ELSE IF ~r.encodable
             THEN /\ abort_cause' = "selective_json_not_encodable"
                  /\ written' = written \cup {"selective/selective_coding_raw.txt",
                                              "selective/selective_coding_agg_only.json"}
                  /\ pc' = "aborted"
                  /\ UNCHANGED selective_result
             ELSE /\ selective_result' =
                        [has_concepts |-> r.has_concepts,
                         aggregate_concepts |-> r.aggregate_concepts,
                         coverage_warning |->
                             r.own_warning \/ HasFindings(validate_coverage(r, axial_codes))]
                  /\ written' = written \cup {"selective/selective_coding_raw.txt",
                                              "selective/selective_coding_agg_only.json",
                                              "selective/selective_coding_agg_only.xlsx"}
                  /\ pc' = "selective_done"
                  /\ UNCHANGED abort_cause
    /\ UNCHANGED <<filterVars, funcVars, open_df, views, axial_codes, storyline_result>>

\* a lone surrogate, which json.loads accepts from the escape \ud800 and the
\* utf-8 codec of an output file refuses
Surrogate == "U+D800"

\* f.write(text) to a file opened with encoding="utf-8" does not raise
utf8_encodable(text) == \A i \in 1..Len(text) : text[i] # Surrogate

\* the value under "storyline": absent, a string, or JSON null
StorylineValues ==
    {[present |-> FALSE, is_str |-> FALSE, text |-> <<>>],
     [present |-> TRUE, is_str |-> FALSE, text |-> <<>>]}
    \cup {[present |-> TRUE, is_str |-> TRUE, text |-> t] :
             t \in {<<>>, <<" ">>, <<"s">>, <<" ", "s">>, <<Surrogate>>}}

\* the value under "anchors": absent, no list (length 0 stands in), or a list;
\* encodable is FALSE when an anchor holds a lone surrogate
AnchorsValues ==
    {[present |-> FALSE, is_list |-> FALSE, length |-> 0, encodable |-> TRUE],
     [present |-> TRUE, is_list |-> FALSE, length |-> 0, encodable |-> TRUE],
     [present |-> TRUE, is_list |-> TRUE, length |-> 0, encodable |-> TRUE]}
    \cup {[present |-> TRUE, is_list |-> TRUE, length |-> 1, encodable |-> e] :
             e \in BOOLEAN}

\* the parsed storyline reply: {} (both keys absent) when unparsable
StorylineReplies == [storyline : StorylineValues, anchors : AnchorsValues]

\* Step 5 up to the raw save: generate_storyline raises when selective_result
\* has no aggregate_concepts key and when the call fails; for an envelope
\* whose content is null it returns ({}, None), and f.write(None) raises
\* TypeError once open() has created the raw file
StorylineStage ==
    /\ pc = "selective_done"
    /\ \/ /\ ~selective_result.has_concepts
          /\ abort_cause' = "storyline_missing_aggregate_concepts"
          /\ pc' = "aborted"
          /\ UNCHANGED <<storyline_result, written>>
       \/ /\ selective_result.has_concepts
          /\ abort_cause' = "storyline_oracle_error"
          /\ pc' = "aborted"
          /\ UNCHANGED <<storyline_result, written>>
       \/ /\ selective_result.has_concepts
          /\ abort_cause' = "storyline_raw_not_text"
          /\ written' = written \cup {"storyline/storyline_raw.txt"}
          /\ pc' = "aborted"
          /\ UNCHANGED storyline_result
       \/ /\ selective_result.has_concepts
          /\ storyline_result' \in StorylineReplies
          /\ written' = written \cup {"storyline/storyline_raw.txt"}
          /\ pc' = "story_done"
          /\ UNCHANGED abort_cause
    /\ UNCHANGED <<filterVars, funcVars, open_df, views, axial_codes, selective_result>>

\* str(value): the text of a string, "None" for null
py_str(v) == IF v.is_str THEN v.text ELSE <<"N", "o", "n", "e">>

\* TRUE when neither RuntimeError is raised
validate_storyline_result(result) ==
    /\ ~(~result.storyline.present \/ strip(py_str(result.storyline)) = <<>>)
    /\ ~(~result.anchors.present \/ ~result.anchors.is_list \/ result.anchors.length = 0)

\* run.py 216-224: the validation, then storyline.txt, then storyline.json;
\* open() has created a file when the write into it raises UnicodeEncodeError
ValidateStoryline ==
    /\ pc = "story_done"
    /\ IF ~validate_storyline_result(storyline_result)
       THEN /\ pc' = "aborted"
            /\ abort_cause' = "storyline_validation"
            /\ UNCHANGED written
       ELSE IF ~utf8_encodable(strip(py_str(storyline_result.storyline)))
       THEN /\ pc' = "aborted"
            /\ abort_cause' = "storyline_text_not_encodable"
            /\ written' = written \cup {"storyline/storyline.txt"}
       ELSE IF ~storyline_result.anchors.encodable
       THEN /\ pc' = "aborted"
            /\ abort_cause' = "storyline_json_not_encodable"
            /\ written' = written \cup {"storyline/storyline.txt",
                                        "storyline/storyline.json"}
       ELSE /\ written' = written \cup {"storyline/storyline.txt",
                                        "storyline/storyline.json"}
            /\ pc' = "finished"
            /\ UNCHANGED abort_cause
    /\ UNCHANGED <<filterVars, funcVars, open_df, views, axial_codes, selective_result,
                   storyline_result>>

InitRun ==
    /\ pc = "start"
    /\ IdleFunc
    /\ IdleRun
    /\ unique_codes = <<>>
    /\ batch_size = RunBatchSize
    /\ max_retries_each_batch = DefaultMaxRetries
    /\ id2retain = EmptyDict
    /\ id2reason = EmptyDict
    /\ stack = <<>>
    /\ s = 0
    /\ poison = 0
    /\ truth = NoTruth

NextRun ==
    \/ EnvConfig
    \/ OpenCoding
    \/ StartFiltering
    \/ NextFilter
    \/ BuildFilterOutputs
    \/ AxialStage
    \/ SelectiveStage
    \/ StorylineStage
    \/ ValidateStoryline

SpecRun == InitRun /\ [][NextRun]_vars

----------------------------------------------------------------------------
(* Claims about a whole run *)

\* the failures of an oracle call or of the handling of its reply
OracleCallCauses ==
    {"selective_oracle_error", "selective_reply_not_object",
     "selective_raw_not_text", "selective_coverage_error",
     "selective_json_not_encodable",
     "storyline_oracle_error", "storyline_missing_aggregate_concepts",
     "storyline_raw_not_text", "storyline_text_not_encodable",
     "storyline_json_not_encodable"}

\* C6: only a failed validation of the final stage aborts a run: no error of an
\* oracle call and no unparsable or field-less reply to one aborts it.
C6_OracleFailureNeverAborts ==
    pc = "aborted" => abort_cause \notin OracleCallCauses

RowViewBuilt == pc \notin {"aborted"} /\ views # <<>>

\* C9, as stated: no row of the row-level view built in a run carries the
\* unresolved marker.
C9_NoUnresolvedRow ==
    RowViewBuilt =>
        \A k \in 1..Len(views.row_df) : views.row_df[k].code_id # Unresolved

\* C9, amended: in the row-level view built in a run, a row whose open_code is
\* non-empty carries the id of the one unique code equal to its text, and a row
\* whose open_code is empty carries the unresolved marker.
C9_NonEmptyRowsResolve ==
    RowViewBuilt =>
        /\ Len(views.row_df) = Len(open_df)
        /\ \A k \in 1..Len(views.row_df) :
              LET row == views.row_df[k]
                  text == strip(open_df[k].text)
              IN  IF text # <<>>
                  THEN /\ row.code_id \in 1..Len(unique_codes)
                       /\ \A i \in 1..Len(unique_codes) :
                             unique_codes[i] = text <=> i = row.code_id
                  ELSE row.code_id = Unresolved

\* two rows, the first with a code and the second with none
C9_Witness ==
    /\ pc = "filtered"
    /\ Len(open_df) = 2
    /\ open_df[1].text = <<"a", "b">>
    /\ open_df[2].text = <<>>
    /\ views.row_df[1].code_id = 1
    /\ views.row_df[2].code_id = Unresolved

HasStorylineString(result) ==
    result.storyline.present /\ result.storyline.is_str /\ strip(result.storyline.text) # <<>>

HasAnchorsList(result) ==
    result.anchors.present /\ result.anchors.is_list /\ result.anchors.length > 0

StorylineOutputs == {"storyline/storyline.txt", "storyline/storyline.json"}

\* C11: the storyline validation fails exactly when the result lacks a non-empty
\* storyline string or a non-empty anchors list; the storyline text and JSON are
\* written only after it has passed, a finished run has written both, and a run
\* it aborts has written neither.
C11_ValidationGatesOutputs ==
    /\ pc = "finished" =>
          HasStorylineString(storyline_result) /\ HasAnchorsList(storyline_result)
    /\ (pc = "aborted" /\ abort_cause = "storyline_validation") =>
          /\ ~(HasStorylineString(storyline_result) /\ HasAnchorsList(storyline_result))
          /\ written \cap StorylineOutputs = {}
    /\ written \cap StorylineOutputs # {} =>
          /\ pc \in {"finished", "aborted"}
          /\ validate_storyline_result(storyline_result)
    /\ pc = "finished" => StorylineOutputs \subseteq written

----------------------------------------------------------------------------
(* parse_qa_blocks of Module1_open_coding.py: a text is its sequence of lines *)

MaxLines == 3

\* stands for the full-width colon U+FF1A
WideColon == ";"

\* line.startswith(("Q:", "Q<wide colon>")) for marker "Q", likewise for "A"
starts_with_marker(line, marker) ==
    /\ Len(line) >= 2
    /\ line[1] = marker
    /\ line[2] \in {":", WideColon}

\* re.sub(r"^Q[:<wide colon>]\s*", "", line): the marker and the blanks after it go
marker_body(line) == lstrip(SubSeq(line, 3, Len(line)))

NoQuestion == [some |-> FALSE, text |-> <<>>]
Question(q) == [some |-> TRUE, text |-> q]

\* "\n".join(lines)
RECURSIVE join_lines(_, _, _)
join_lines(lines, k, joined) ==
    IF k > Len(lines) THEN joined
    ELSE join_lines(lines, k + 1,
            IF k = 1 THEN lines[k] ELSE joined \o <<"\n">> \o lines[k])

QABlock(current_q, current_a_lines) ==
    [question |-> strip(current_q.text),
     answer |-> strip(join_lines(current_a_lines, 1, <<>>))]

\* the loop over text.splitlines() from line k on, then the final flush
RECURSIVE parse_lines(_, _, _, _, _)
parse_lines(text, k, blocks, current_q, current_a_lines) ==
    IF k > Len(text)
    THEN IF current_q.some /\ current_a_lines # <<>>
         THEN Append(blocks, QABlock(current_q, current_a_lines))
         ELSE blocks
    ELSE LET line == strip(text[k])
         IN  IF line = <<>>
             THEN parse_lines(text, k + 1, blocks, current_q, current_a_lines)
             ELSE IF starts_with_marker(line, "Q")
             THEN IF current_q.some /\ current_a_lines # <<>>
                  THEN parse_lines(text, k + 1,
                          Append(blocks, QABlock(current_q, current_a_lines)),
                          Question(marker_body(line)), <<>>)
                  ELSE parse_lines(text, k + 1, blocks,
                          Question(marker_body(line)), current_a_lines)
             ELSE IF starts_with_marker(line, "A")
             THEN parse_lines(text, k + 1, blocks, current_q,
                     IF marker_body(line) # <<>>
                     THEN Append(current_a_lines, marker_body(line))
                     ELSE current_a_lines)
             ELSE IF current_a_lines # <<>>
             THEN parse_lines(text, k + 1, blocks, current_q,
                     Append(current_a_lines, line))
             ELSE IF current_q.some
             THEN parse_lines(text, k + 1, blocks,
                     Question(current_q.text \o <<" ">> \o line), current_a_lines)
             ELSE parse_lines(text, k + 1, blocks, current_q, current_a_lines)

parse_qa_blocks(text) == parse_lines(text, 1, <<>>, NoQuestion, <<>>)

\* lines of a transcript: blank, question and answer markers with and without
\* a body, plain text
SampleLines ==
    {<<>>, <<" ">>,
     <<"Q", ":">>, <<"Q", ":", " ", "q">>, <<" ", "Q", WideColon, "q">>,
     <<"A", ":">>, <<"A", ":", " ">>, <<"A", ":", " ", "x">>, <<"A", WideColon, "y", " ">>,
     <<"x">>, <<" ", "z", " ">>, <<"Q">>}

InitSeg ==
    /\ pc = "segment"
    /\ arg \in SeqsUpTo(SampleLines, MaxLines)
    /\ res = <<>>
    /\ IdleOpen
    /\ IdleRun
    /\ unique_codes = <<>>
    /\ batch_size = 1
    /\ max_retries_each_batch = 0
    /\ id2retain = EmptyDict
    /\ id2reason = EmptyDict
    /\ stack = <<>>
    /\ s = 0
    /\ poison = 0
    /\ truth = NoTruth

ParseQaBlocks ==
    /\ pc = "segment"
    /\ res' = parse_qa_blocks(arg)
    /\ pc' = "segmented"
    /\ UNCHANGED <<arg, openVars, filterVars, runVars>>

NextSeg == ParseQaBlocks

SpecSeg == InitSeg /\ [][NextSeg]_vars

IsQuestionLine(k) == starts_with_marker(strip(arg[k]), "Q")

IsAnswerLine(k) ==
    starts_with_marker(strip(arg[k]), "A") /\ marker_body(strip(arg[k])) # <<>>

\* the question marker on line k has answer content after it and before the next
\* question marker
Answered(k) ==
    \E j \in (k + 1)..Len(arg) :
        /\ IsAnswerLine(j)
        /\ \A i \in (k + 1)..(j - 1) : ~IsQuestionLine(i)

\* C12: every block the segmenter returns has a non-empty answer, and a
\* question marker with no answer content before the next question marker or
\* the end of the input produces no block.
C12_NoBlockWithoutAnswer ==
    pc = "segmented" =>
        /\ \A b \in 1..Len(res) : res[b].answer # <<>>
        /\ Len(res) <= Cardinality({k \in 1..Len(arg) : IsQuestionLine(k) /\ Answered(k)})

----------------------------------------------------------------------------
(* safe_parse_json: a text is a sequence of tokens.  "{" v "}" stands for the
   object {"k": v}, "[" v "]" for the array [v], "1" for a number, "f" for a
   fence of three backquotes, "j" for the word json, "x" for any other text *)

MaxTokens == 4

Tokens == {"{", "}", "[", "]", "1", "x", "f", "j", " "}

\* the first index from i on that holds no blank
RECURSIVE skip_ws(_, _)
skip_ws(toks, i) ==
    IF i <= Len(toks) /\ toks[i] = " " THEN skip_ws(toks, i + 1) ELSE i

NoValue == [ok |-> FALSE, kind |-> "none", end |-> 0]

\* the JSON value that starts at index i, and the index after it
RECURSIVE parse_value(_, _)
parse_value(toks, i) ==
    IF i > Len(toks) THEN NoValue
    ELSE IF toks[i] = "1" THEN [ok |-> TRUE, kind |-> "scalar", end |-> i + 1]
    ELSE IF toks[i] \in {"{", "["}
    THEN LET close == IF toks[i] = "{" THEN "}" ELSE "]"
             kind == IF toks[i] = "{" THEN "object" ELSE "array"
             j == skip_ws(toks, i + 1)
         IN  IF j <= Len(toks) /\ toks[j] = close
             THEN [ok |-> TRUE, kind |-> kind, end |-> j + 1]
             ELSE LET v == parse_value(toks, j)
                      k == IF v.ok THEN skip_ws(toks, v.end) ELSE 0
                  IN  IF v.ok /\ k <= Len(toks) /\ toks[k] = close
                      THEN [ok |-> TRUE, kind |-> kind, end |-> k + 1]
                      ELSE NoValue
    ELSE NoValue

\* json.loads: one value with blanks around it, or an exception (ok = FALSE)
json_loads(toks) ==
    LET v == parse_value(toks, skip_ws(toks, 1))
    IN  IF v.ok /\ skip_ws(toks, v.end) = Len(toks) + 1 THEN v ELSE NoValue

\* re.sub(r"^<fence>json\s*", "", s, flags=re.IGNORECASE)
sub_fence_json(toks) ==
    IF Len(toks) >= 2 /\ toks[1] = "f" /\ toks[2] = "j"
    THEN lstrip(SubSeq(toks, 3, Len(toks))) ELSE toks

\* re.sub(r"^<fence>\s*", "", s)
sub_fence_open(toks) ==
    IF Len(toks) >= 1 /\ toks[1] = "f"
    THEN lstrip(SubSeq(toks, 2, Len(toks))) ELSE toks

\* re.sub(r"\s*<fence>$", "", s)
sub_fence_close(toks) ==
    IF Len(toks) >= 1 /\ toks[Len(toks)] = "f"
    THEN rstrip(SubSeq(toks, 1, Len(toks) - 1)) ELSE toks

\* s.find(c): the first index of c, 0 when absent
RECURSIVE find(_, _, _)
find(toks, c, i) ==
    IF i > Len(toks) THEN 0 ELSE IF toks[i] = c THEN i ELSE find(toks, c, i + 1)

\* s.rfind(c): the last index of c, 0 when absent
RECURSIVE rfind(_, _, _)
rfind(toks, c, i) ==
    IF i < 1 THEN 0 ELSE IF toks[i] = c THEN i ELSE rfind(toks, c, i - 1)

Returned(kind) == [raised |-> FALSE, kind |-> kind]

safe_parse_json(text) ==
    IF ~text.is_str THEN Returned("null")
    ELSE LET stripped == sub_fence_close(sub_fence_open(sub_fence_json(strip(text.text))))
             direct == json_loads(stripped)
             first == find(stripped, "{", 1)
             last == rfind(stripped, "}", Len(stripped))
         IN  IF direct.ok THEN Returned(direct.kind)
             ELSE IF first > 0 /\ last > 0
             THEN LET snippet == IF first <= last THEN SubSeq(stripped, first, last) ELSE <<>>
                      inner == json_loads(snippet)
                  IN  IF inner.ok THEN Returned(inner.kind) ELSE Returned("null")
             ELSE Returned("null")

InitParse ==
    /\ pc = "parse"
    /\ arg \in {NonStrCell} \cup {StrCell(toks) : toks \in SeqsUpTo(Tokens, MaxTokens)}
    /\ res = <<>>
    /\ IdleOpen
    /\ IdleRun
    /\ unique_codes = <<>>
    /\ batch_size = 1
    /\ max_retries_each_batch = 0
    /\ id2retain = EmptyDict
    /\ id2reason = EmptyDict
    /\ stack = <<>>
    /\ s = 0
    /\ poison = 0
    /\ truth = NoTruth

SafeParseJson ==
    /\ pc = "parse"
    /\ res' = safe_parse_json(arg)
    /\ pc' = "parsed"
    /\ UNCHANGED <<arg, openVars, filterVars, runVars>>

NextParse == SafeParseJson

SpecParse == InitParse /\ [][NextParse]_vars

\* C13: the extractor never raises and its result is a JSON object or null.
C13_ObjectOrNull ==
    pc = "parsed" => ~res.raised /\ res.kind \in {"object", "null"}

----------------------------------------------------------------------------
(* run_open_coding_from_text and open_code_answer of Module1_open_coding.py *)

MaxBlocks == 3

OpenMaxRetries == 3

\* stands for the text "[API ...: repr(last_err)]" returned after the last failure
OpenFailure == <<"[", "e", "]">>

SampleBlocks ==
    {[question |-> <<"q">>, answer |-> <<"x">>],
     [question |-> <<>>, answer |-> <<"y">>]}

\* what a call that did not raise leaves to return: the open_code member of the
\* parsed object, the text the regular expression captured, or the raw text
OpenReplies ==
    [kind : {"object", "captured", "raw"}, text : {<<>>, <<"a">>, <<" ", "b">>}]

\* the return value for a reply: lines 103-111; raw_text is stripped at line 101
open_code_of(reply) == strip(reply.text)

OpenCodeRecord(i, block, code) ==
    [id |-> i, question |-> block.question, answer |-> block.answer, open_code |-> code]

\* mutant: a block whose calls all failed gets no row
next_block_skipped(code) ==
    /\ res' = (IF code = OpenFailure
               THEN res ELSE Append(res, OpenCodeRecord(idx, arg[idx], code)))
    /\ idx' = idx + 1
    /\ open_attempt' = 1

\* rows.append(...), then the next iteration of the loop over qa_blocks
next_block(code) ==
    /\ res' = Append(res, OpenCodeRecord(idx, arg[idx], code))
    /\ idx' = idx + 1
    /\ open_attempt' = 1

InitOpen ==
    /\ pc = "coding"
    /\ arg \in SeqsUpTo(SampleBlocks, MaxBlocks)
    /\ res = <<>>
    /\ idx = 1
    /\ open_attempt = 1
    /\ IdleRun
    /\ unique_codes = <<>>
    /\ batch_size = 1
    /\ max_retries_each_batch = 0
    /\ id2retain = EmptyDict
    /\ id2reason = EmptyDict
    /\ stack = <<>>
    /\ s = 0
    /\ poison = 0
    /\ truth = NoTruth

\* an attempt that does not raise returns
OpenCodeReturns ==
    /\ pc = "coding"
    /\ idx <= Len(arg)
    /\ \E reply \in OpenReplies : next_block(open_code_of(reply))
    /\ UNCHANGED <<pc, arg, filterVars, runVars>>

\* an attempt before the last raises: sleep and try again
OpenCodeRetries ==
    /\ pc = "coding"
    /\ idx <= Len(arg)
    /\ open_attempt < OpenMaxRetries
    /\ open_attempt' = open_attempt + 1
    /\ UNCHANGED <<pc, arg, res, idx, filterVars, runVars>>

\* the last attempt raises: the failure text is the block's code
OpenCodeGivesUp ==
    /\ pc = "coding"
    /\ idx <= Len(arg)
    /\ open_attempt = OpenMaxRetries
    /\ next_block(OpenFailure)
    /\ UNCHANGED <<pc, arg, filterVars, runVars>>

\* return pd.DataFrame(rows)
ReturnRows ==
    /\ pc = "coding"
    /\ idx > Len(arg)
    /\ pc' = "coded"
    /\ UNCHANGED <<funcVars, filterVars, runVars>>

NextOpen ==
    \/ OpenCodeReturns
    \/ OpenCodeRetries
    \/ OpenCodeGivesUp
    \/ ReturnRows

SpecOpen == InitOpen /\ [][NextOpen]_vars

RecordOf(k) ==
    /\ res[k].id = k
    /\ res[k].question = arg[k].question
    /\ res[k].answer = arg[k].answer

\* C14: open coding yields exactly one record per block, in block order, with
\* ids 1..M, whatever the oracle does: while the loop runs the rows are the
\* records of the blocks already passed, and a block whose calls all failed has
\* its record too.
C14_OneRecordPerBlock ==
    /\ pc = "coding" =>
          /\ Len(res) = idx - 1
          /\ idx <= Len(arg) + 1
          /\ \A k \in 1..Len(res) : RecordOf(k)
    /\ pc = "coded" =>
          /\ Len(res) = Len(arg)
          /\ \A k \in 1..Len(res) : RecordOf(k)

\* three blocks, the middle one failed on every attempt, the last one coded
C14_Witness ==
    /\ pc = "coded"
    /\ Len(arg) = 3
    /\ res[1].open_code = <<"a">>
    /\ res[2].open_code = OpenFailure
    /\ res[3].open_code = <<"b">>
    /\ res[3].id = 3

----------------------------------------------------------------------------
(* Claims about process_range *)

HoldsOracleVerdict(i) ==
    /\ i \in DOMAIN id2retain
    /\ i \in DOMAIN id2reason
    /\ id2retain[i] = truth[i].retain
    /\ id2reason[i] = truth[i].exclude_reason

\* C15: when every attempt on a range of one item fails, the item gets the
\* default verdict retain = false with a non-empty failure reason and the call
\* returns; items of the ranges whose attempt succeeded keep the oracle's verdicts.
C15_SingleItemDefault ==
    (pc = "done" /\ poison >= 1) =>
        /\ stack = <<>>
        /\ id2retain[poison] = FALSE
        /\ id2reason[poison] = REASON_SINGLE_FAILED
        /\ id2reason[poison] # ""
        /\ max_retries_each_batch >= 1 =>
              \A i \in (1..NumCodes) \ {poison} : HoldsOracleVerdict(i)

\* three codes in batches of two, the second batch (code 3 alone) always failing
C15_Witness ==
    /\ pc = "done"
    /\ NumCodes = 3
    /\ batch_size = 2
    /\ poison = 3
    /\ max_retries_each_batch >= 1
    /\ HoldsSingleDefault(3)
    /\ id2retain[1] = TRUE
    /\ id2retain[2] = FALSE
    /\ id2reason[2] = "r"

\* the ids of the half-open range [a, b)
RangeIds(a, b) == (a + 1)..b

\* frame k of the stack is a half of the range of frame k - 1, which has used
\* up its attempts
HalfOfParent(k) ==
    LET parent == stack[k - 1]
        child == stack[k]
        n == parent.end_idx - parent.start_idx
        mid == parent.start_idx + (n \div 2)
    IN  /\ n > 1
        /\ parent.attempt = max_retries_each_batch
        /\ parent.start_idx < mid /\ mid < parent.end_idx
        /\ RangeIds(parent.start_idx, mid) \cap RangeIds(mid, parent.end_idx) = {}
        /\ RangeIds(parent.start_idx, mid) \cup RangeIds(mid, parent.end_idx)
             = RangeIds(parent.start_idx, parent.end_idx)
        /\ \/ /\ parent.phase = "left"
              /\ child.start_idx = parent.start_idx /\ child.end_idx = mid
              /\ RangeIds(mid, parent.end_idx) \cap DOMAIN id2retain = {}
           \/ /\ parent.phase = "right"
              /\ child.start_idx = mid /\ child.end_idx = parent.end_idx
              /\ RangeIds(parent.start_idx, mid) \subseteq DOMAIN id2retain

\* the step puts a call on top of the stack that was not there before
Entered ==
    /\ stack' # <<>>
    /\ \/ stack = <<>>
       \/ Len(stack') > Len(stack)
       \/ Top(stack').start_idx # Top(stack).start_idx
       \/ Top(stack').end_idx # Top(stack).end_idx

\* C16: a range of n > 1 items whose attempts all failed is split at
\* start + n div 2 into two non-empty, disjoint halves that make up the range;
\* the left half is complete before the right half starts, and every call
\* entered starts with no attempt used.
C16_Bisection ==
    [][ /\ \A k \in 2..Len(stack') : HalfOfParent(k)'
        /\ Entered => (Top(stack').attempt = 0 /\ Top(stack').phase = "try")
      ]_vars

\* the right half of a failed batch of three is being tried after its left half
\* got its verdict
C16_Witness ==
    /\ pc = "batch"
    /\ Len(stack) = 2
    /\ stack[1].start_idx = 0 /\ stack[1].end_idx = 3
    /\ stack[1].phase = "right"
    /\ stack[2].start_idx = 1 /\ stack[2].end_idx = 3
    /\ stack[2].attempt = 0
    /\ max_retries_each_batch = MaxRetries
    /\ 1 \in DOMAIN id2retain

\* the step takes the innermost call off the stack: it returned, or its right
\* sibling took its place
TopReturned ==
    \/ Len(stack') < Len(stack)
    \/ /\ Len(stack') = Len(stack)
       /\ Top(stack').start_idx # Top(stack).start_idx
       /\ Top(stack').attempt = 0

\* the step writes the single-item failure default
WritesSingleDefault ==
    \E i \in DOMAIN id2reason' :
        /\ i \notin DOMAIN id2reason
        /\ id2reason'[i] = REASON_SINGLE_FAILED

\* C17: one invocation of process_range calls the oracle at most
\* max_retries_each_batch times, the invocation that recorded verdicts makes no
\* further call, and bisection and the single-item default come only after
\* max_retries_each_batch failed attempts.
C17_RetryBudget ==
    [][ /\ \A k \in 1..Len(stack') : stack'[k].attempt <= max_retries_each_batch
        /\ (stack # <<>> /\ stack' # <<>> /\ ~TopReturned /\ Len(stack') = Len(stack)
              /\ stack' # stack) =>
              /\ Top(stack').attempt = Top(stack).attempt + 1
              /\ id2retain' = id2retain /\ id2reason' = id2reason
        /\ (id2retain' # id2retain \/ id2reason' # id2reason) =>
              stack # <<>> /\ TopReturned
        /\ (stack # <<>> /\ Len(stack') > Len(stack)) =>
              Top(stack).attempt = max_retries_each_batch
        /\ WritesSingleDefault =>
              stack # <<>> /\ Top(stack).attempt = max_retries_each_batch
      ]_vars

\* a batch of two used up the largest retry budget and its left half has
\* failed once
C17_Witness ==
    /\ pc = "batch"
    /\ max_retries_each_batch = MaxRetries
    /\ Len(stack) = 2
    /\ stack[1].attempt = MaxRetries
    /\ stack[2].attempt = 1
    /\ id2retain = EmptyDict

----------------------------------------------------------------------------
(* The filter with an oracle whose replies leave items out *)

OmittedVerdict == [retain |-> TRUE, exclude_reason |-> "", listed |-> FALSE]

InitPartial ==
    /\ IdleFunc
    /\ IdleRun
    /\ pc = "loop"
    /\ \E n \in 0..MaxCodes : unique_codes = SubSeq(SampleCodes, 1, n)
    /\ batch_size \in 1..MaxBatch
    /\ max_retries_each_batch \in 0..MaxRetries
    /\ id2retain = EmptyDict
    /\ id2reason = EmptyDict
    /\ stack = <<>>
    /\ s = 0
    /\ poison \in 1..(Len(unique_codes) + 1)
    /\ truth \in [1..MaxCodes -> WellFormedVerdicts \cup {OmittedVerdict}]
    /\ \A i \in (Len(unique_codes) + 1)..MaxCodes : truth[i] = NoTruth[i]

SpecPartial == InitPartial /\ [][NextFilter]_vars

HoldsMissingDefault(i) ==
    /\ i \in DOMAIN id2retain
    /\ i \in DOMAIN id2reason
    /\ id2retain[i] = FALSE
    /\ id2reason[i] = REASON_NOT_RETURNED

\* C18: an attempt whose reply carries the list but leaves out some or all ids
\* of the batch is a success: no retry and no bisection happens for a batch the
\* oracle answers, the ids left out hold the default retain = false with the
\* missing-verdict reason, and the ids listed hold the reply's verdicts.
C18_PartialReplySucceeds ==
    max_retries_each_batch >= 1 =>
        /\ \A k \in 1..Len(stack) :
              /\ stack[k].attempt > 0 =>
                    poison \in RangeIds(stack[k].start_idx, stack[k].end_idx)
              /\ k > 1 =>
                    poison \in RangeIds(stack[k - 1].start_idx, stack[k - 1].end_idx)
        /\ pc = "done" =>
              \A i \in (1..NumCodes) \ {poison} :
                  IF truth[i].listed THEN HoldsOracleVerdict(i) ELSE HoldsMissingDefault(i)

\* a batch of three answered with one entry, for the first item only
C18_Witness ==
    /\ pc = "done"
    /\ NumCodes = 3
    /\ batch_size = 3
    /\ poison = 4
    /\ max_retries_each_batch >= 1
    /\ truth[1].listed /\ ~truth[1].retain
    /\ ~truth[2].listed /\ ~truth[3].listed
    /\ HoldsOracleVerdict(1)
    /\ HoldsMissingDefault(2)
    /\ HoldsMissingDefault(3)

\* the entry of id i is the same before and after the step
SameEntry(i) ==
    /\ (i \in DOMAIN id2retain') <=> (i \in DOMAIN id2retain)
    /\ (i \in DOMAIN id2reason') <=> (i \in DOMAIN id2reason)
    /\ i \in DOMAIN id2retain => id2retain'[i] = id2retain[i]
    /\ i \in DOMAIN id2reason => id2reason'[i] = id2reason[i]

AllIds == (DOMAIN id2retain) \cup (DOMAIN id2reason) \cup (DOMAIN id2retain')
              \cup (DOMAIN id2reason') \cup (1..NumCodes)

\* the step is a successful attempt of the innermost call
Succeeded ==
    /\ stack # <<>>
    /\ id2retain' # id2retain
    /\ ~WritesSingleDefault

\* C19: a successful attempt on the range with offset start_idx records the
\* verdict for local id i under the global id start_idx + i, no step changes an
\* entry outside the range of the innermost call, and no id's verdict is
\* written twice: entries never change and a range being tried has none yet.
C19_GlobalIdsAndFrame ==
    [][ /\ \A i \in AllIds :
              \/ SameEntry(i)
              \/ /\ stack # <<>>
                 /\ i \in RangeIds(Top(stack).start_idx, Top(stack).end_idx)
                 /\ i \notin DOMAIN id2retain /\ i \notin DOMAIN id2reason
        /\ (Succeeded /\ poison >= 1) =>
              \A i \in RangeIds(Top(stack).start_idx, Top(stack).end_idx) :
                  /\ i \in DOMAIN id2retain' /\ i \in DOMAIN id2reason'
                  /\ id2retain'[i] = truth[i].retain
                  /\ id2reason'[i] = truth[i].exclude_reason
        /\ stack' # <<>> =>
              \A i \in RangeIds(Top(stack').start_idx, Top(stack').end_idx) :
                  i \notin DOMAIN id2retain' /\ i \notin DOMAIN id2reason'
      ]_vars

\* single-item batches with the first item poison: items 2 and 3 hold their own
\* verdicts, recorded by calls with offsets 1 and 2
C19_Witness ==
    /\ pc = "done"
    /\ NumCodes = 3
    /\ batch_size = 1
    /\ poison = 1
    /\ ~truth[2].retain /\ truth[3].retain
    /\ HoldsOracleVerdict(2)
    /\ HoldsOracleVerdict(3)

----------------------------------------------------------------------------
(* Claims about the entries _normalize_filtering_result keeps *)

\* entry k of the reply names the in-range id i
NamesId(k, i) == arg.data.filtering[k].idnum /\ arg.data.filtering[k].id = i

Named(i) == \E k \in 1..Len(arg.data.filtering) : NamesId(k, i)

FirstNaming(i) ==
    CHOOSE k \in 1..Len(arg.data.filtering) :
        NamesId(k, i) /\ \A j \in 1..(k - 1) : ~NamesId(j, i)

\* the verdict the entry e stands for
VerdictOfEntry(e) ==
    [id |-> e.id, retain |-> e.retain,
     exclude_reason |-> IF e.retain \/ ~e.has_reason THEN ""
                        ELSE IF e.exclude_reason = " " THEN "" ELSE e.exclude_reason]

\* C20: of several entries with the same in-range id the first in list order
\* gives the verdict kept for that id; entries with a non-numeric id or an id
\* outside 1..n contribute nothing: every verdict has an id in 1..n, and an id
\* no entry names holds the default.
C20_FirstEntryWins ==
    (pc = "normalized" /\ arg.data.kind = "list") =>
        /\ \A i \in 1..arg.batch_size : \E k \in 1..Len(res) : res[k].id = i
        /\ \A k \in 1..Len(res) :
              /\ res[k].id \in 1..arg.batch_size
              /\ IF Named(res[k].id)
                 THEN res[k] = VerdictOfEntry(arg.data.filtering[FirstNaming(res[k].id)])
                 ELSE res[k] = [id |-> res[k].id, retain |-> FALSE,
                                exclude_reason |-> REASON_NOT_RETURNED]

\* two entries for id 1 that disagree: the first one, retain = true, is kept
C20_Witness ==
    /\ pc = "normalized"
    /\ arg.batch_size = 2
    /\ arg.data.kind = "list"
    /\ Len(arg.data.filtering) = 2
    /\ NamesId(1, 1) /\ NamesId(2, 1)
    /\ arg.data.filtering[1].retain
    /\ ~arg.data.filtering[2].retain
    /\ arg.data.filtering[2].exclude_reason = "r"
    /\ res[1].retain
    /\ res[2].exclude_reason = REASON_NOT_RETURNED

----------------------------------------------------------------------------
(* Claims about the cooldown of the top-level loop *)

\* the ids of the top-level batch that starts at s
BatchDone == \A i \in BatchItems : i \in DOMAIN id2retain /\ i \in DOMAIN id2reason

LaterUntouched == \A i \in DOMAIN id2retain : i <= s + batch_size

\* C21: every cooldown sleep comes after one top-level batch has been processed
\* completely, sub-calls included, and before the next batch starts; none
\* happens while a call of process_range is on the stack.
C21_CooldownBetweenBatches ==
    [][ /\ pc' = "sleep" =>
              /\ pc = "batch"
              /\ stack' = <<>>
              /\ BatchDone'
              /\ LaterUntouched'
        /\ pc = "sleep" => (pc' = "loop" /\ s' = s + batch_size /\ stack' = <<>>)
        /\ (pc' = "loop" /\ pc # "loop") => pc = "sleep"
        /\ stack' # <<>> => pc' = "batch"
        /\ (pc = "loop" /\ pc' = "batch") => (stack = <<>> /\ Len(stack') = 1)
      ]_vars

\* the cooldown after the second batch; the first batch of two was bisected
\* down to two failed single items
C21_Witness ==
    /\ pc = "sleep"
    /\ NumCodes = 3
    /\ batch_size = 2
    /\ s = 2
    /\ HoldsSingleDefault(1)
    /\ HoldsSingleDefault(2)
    /\ 3 \in DOMAIN id2retain
    /\ ~HoldsSingleDefault(3)

----------------------------------------------------------------------------
(* Claims about where parse_qa_blocks puts a line that carries no marker *)

IsAnswerMarker(k) == starts_with_marker(strip(arg[k]), "A")

IsPlainLine(k) ==
    /\ strip(arg[k]) # <<>>
    /\ ~IsQuestionLine(k)
    /\ ~IsAnswerMarker(k)

\* the index of the last question marker before line k, 0 when there is none
LastQuestionBefore(k) ==
    LET qs == {q \in 1..(k - 1) : IsQuestionLine(q)}
    IN  IF qs = {} THEN 0 ELSE CHOOSE q \in qs : \A r \in qs : r <= q

\* an answer marker, with or without text after it, was read after the last
\* question marker and before line k
AnswerOpenAt(k) ==
    /\ LastQuestionBefore(k) > 0
    /\ \E a \in (LastQuestionBefore(k) + 1)..(k - 1) : IsAnswerMarker(a)

\* the text of question marker q with the plain lines read while no answer is
\* open joined on by single blanks
RECURSIVE question_text_from(_, _)
question_text_from(k, text) ==
    IF k > Len(arg) \/ IsQuestionLine(k) \/ IsAnswerMarker(k) THEN strip(text)
    ELSE question_text_from(k + 1,
            IF IsPlainLine(k) THEN text \o <<" ">> \o strip(arg[k]) ELSE text)

QuestionTextOf(q) == question_text_from(q + 1, marker_body(strip(arg[q])))

Contains(text, piece) ==
    \E i \in 1..(Len(text) - Len(piece) + 1) :
        SubSeq(text, i, i + Len(piece) - 1) = piece

\* C22: a plain line read while an answer is open (an answer marker, even one
\* without text, was read since the last question marker) is part of the
\* answer of that question's block, and the question of every block is its
\* marker's text joined with exactly the plain lines read while no answer was
\* open.
C22_PlainLineGoesToOpenAnswer ==
    pc = "segmented" =>
        /\ \A k \in 1..Len(arg) :
              (IsPlainLine(k) /\ AnswerOpenAt(k)) =>
                  \E b \in 1..Len(res) :
                      /\ res[b].question = QuestionTextOf(LastQuestionBefore(k))
                      /\ Contains(res[b].answer, strip(arg[k]))
        /\ \A b \in 1..Len(res) :
              \E q \in 1..Len(arg) :
                  IsQuestionLine(q) /\ res[b].question = QuestionTextOf(q)

\* text.split("\n") of a joined answer
RECURSIVE split_newlines(_, _, _, _)
split_newlines(text, k, current, lines) ==
    IF k > Len(text) THEN Append(lines, current)
    ELSE IF text[k] = "\n"
         THEN split_newlines(text, k + 1, <<>>, Append(lines, current))
         ELSE split_newlines(text, k + 1, Append(current, text[k]), lines)

AnsweredMarkers == {k \in 1..Len(arg) : IsQuestionLine(k) /\ Answered(k)}

\* the b-th question marker, in input order, that has answer content
NthAnswered(b) ==
    CHOOSE k \in AnsweredMarkers :
        Cardinality({j \in AnsweredMarkers : j <= k}) = b

\* the index of the first question marker after line q, or one past the end
NextQuestionAfter(q) ==
    LET qs == {k \in (q + 1)..Len(arg) : IsQuestionLine(k)}
    IN  IF qs = {} THEN Len(arg) + 1 ELSE CHOOSE k \in qs : \A r \in qs : k <= r

\* the texts of the lines between question marker q and the next one
SegmentTexts(q) ==
    {IF IsAnswerMarker(k) THEN marker_body(strip(arg[k])) ELSE strip(arg[k]) :
        k \in (q + 1)..(NextQuestionAfter(q) - 1)}

IsPrefix(piece, text) ==
    Len(piece) <= Len(text) /\ SubSeq(text, 1, Len(piece)) = piece

\* C23: the segmenter returns one block per question marker that has answer
\* content before the next question marker, in input order; the block's
\* question starts with that marker's text and every line of its answer is a
\* line lying between that marker and the next question marker, so an answer
\* line read before a question marker is in no block of that or a later marker.
C23_BlocksMatchAnsweredMarkers ==
    pc = "segmented" =>
        /\ Len(res) = Cardinality(AnsweredMarkers)
        /\ \A b \in 1..Len(res) :
              b <= Cardinality(AnsweredMarkers) =>
                  LET q == NthAnswered(b)
                      answer_lines == split_newlines(res[b].answer, 1, <<>>, <<>>)
                  IN  /\ IsPrefix(marker_body(strip(arg[q])), res[b].question)
                      /\ \A l \in 1..Len(answer_lines) :
                            answer_lines[l] \in SegmentTexts(q)

----------------------------------------------------------------------------
(* Claims about the three findings of validate_coverage *)

CoverageConcepts ==
    IF arg.result.has_concepts THEN arg.result.aggregate_concepts ELSE <<>>

\* concept c lists the code a, blanks around it aside
Covers(c, a) ==
    \E i \in 1..Len(CoverageConcepts[c]) : strip(CoverageConcepts[c][i]) = a

CoveringConcepts(a) == {c \in 1..Len(CoverageConcepts) : Covers(c, a)}

ReferencedCodes ==
    {a \in {strip(t) : t \in CoveredTexts} : CoveringConcepts(a) # {}}

\* C24: missing is exactly the known axial codes that no concept references,
\* extra is exactly the referenced codes that are not known, and duplicated is
\* exactly the non-empty codes that more than one concept covers, so that a
\* code listed several times by one concept only is not duplicated.
C24_CoverageFindingsExact ==
    pc = "validated" =>
        /\ SeqRange(res.missing) =
              {a \in SeqRange(arg.axial_codes) : CoveringConcepts(a) = {}}
        /\ res.extra = ReferencedCodes \ SeqRange(arg.axial_codes)
        /\ SeqRange(res.duplicated) =
              {a \in ReferencedCodes :
                  a # <<>> /\ Cardinality(CoveringConcepts(a)) > 1}

----------------------------------------------------------------------------
(* Step 3 of run.py: attach_axial_to_retain_unique, make_axial_summary and
   attach_axial_to_row_level of Module3_axial_coding.py, after
   build_filter_outputs_from_open_df *)

\* the "; " that joins member_open_codes
Separator == <<";", " ">>

\* open codes as the open-coding stage returns them: stripped, possibly empty,
\* possibly with "; " inside
AxialOpenTexts == {<<>>, <<"a">>, <<"b">>, <<"a", ";", " ", "b">>}

\* what deepseek_axial_coding can return: a dict from integer ids, known or
\* not, to stripped labels; {} after a failure
AxialMaps(n) == UNION {[ids -> AxialLabels] : ids \in SUBSET (1..(n + 1))}

\* retain_unique_df[retain_unique_df["retain"] == True], open_code stripped
retained_rows(rows) ==
    [k \in 1..Len(rows_with_retain(rows, TRUE, 1, <<>>)) |->
        [rows_with_retain(rows, TRUE, 1, <<>>)[k] EXCEPT !.open_code = strip(@)]]

\* out["axial_code"] = out["code_id"].apply(lambda cid: id2axial.get(int(cid), ""))
attach_axial_to_retain_unique(retain_unique_df, id2axial) ==
    [k \in 1..Len(retain_unique_df) |->
        [code_id |-> retain_unique_df[k].code_id,
         open_code |-> retain_unique_df[k].open_code,
         retain |-> retain_unique_df[k].retain,
         exclude_reason |-> retain_unique_df[k].exclude_reason,
         axial_code |-> dict_get(id2axial, retain_unique_df[k].code_id, <<>>)]]

\* the code point order of the characters in use
CharRank(c) ==
    CASE c = " " -> 32
      [] c = ";" -> 59
      [] c = "a" -> 97
      [] c = "b" -> 98

\* a < b on str
RECURSIVE TextLess(_, _)
TextLess(a, b) ==
    IF a = <<>> THEN b # <<>>
    ELSE IF b = <<>> THEN FALSE
    ELSE IF a[1] # b[1] THEN CharRank(a[1]) < CharRank(b[1])
    ELSE TextLess(Tail(a), Tail(b))

\* sorted(set(x))
RECURSIVE sorted_texts(_, _)
sorted_texts(texts, sorted) ==
    IF texts = {} THEN sorted
    ELSE LET least == CHOOSE t \in texts : \A u \in texts \ {t} : TextLess(t, u)
         IN  sorted_texts(texts \ {least}, Append(sorted, least))

\* "; ".join(texts)
RECURSIVE join_separator(_, _, _)
join_separator(texts, k, joined) ==
    IF k > Len(texts) THEN joined
    ELSE join_separator(texts, k + 1,
            IF k = 1 THEN texts[k] ELSE joined \o Separator \o texts[k])

\* len(s.split("; ")): one more than the separators found from left to right
RECURSIVE split_len(_, _, _)
split_len(text, k, pieces) ==
    IF k + 1 > Len(text) THEN pieces
    ELSE IF SubSeq(text, k, k + 1) = Separator
         THEN split_len(text, k + 2, pieces + 1)
         ELSE split_len(text, k + 1, pieces)

\* one row per group of df.groupby("axial_code") over the rows whose stripped
\* axial_code is not ""
make_axial_summary(retain_unique_with_axial) ==
    LET df == retain_unique_with_axial
        keys == SortedLabels({strip(df[k].axial_code) : k \in 1..Len(df)} \ {<<>>})
        member_open_codes(label) ==
            join_separator(
                sorted_texts({df[k].open_code :
                                 k \in {j \in 1..Len(df) : strip(df[j].axial_code) = label}},
                             <<>>),
                1, <<>>)
    IN  [i \in 1..Len(keys) |->
            [axial_code |-> keys[i],
             member_open_codes |-> member_open_codes(keys[i]),
             n_members |-> IF strip(member_open_codes(keys[i])) = <<>> THEN 0
                           ELSE split_len(member_open_codes(keys[i]), 1, 1)]]

\* mutant: the mapping is the oracle's id2axial itself
axial_mapping_all_listed(retain_unique_with_axial) == arg.id2axial

\* mapping = {int(r["code_id"]): str(r["axial_code"]).strip() for ...}: a later
\* row replaces an earlier one with the same code_id
axial_mapping(retain_unique_with_axial) ==
    LET df == retain_unique_with_axial
    IN  [c \in {df[k].code_id : k \in 1..Len(df)} |->
            strip(df[CHOOSE k \in 1..Len(df) :
                        /\ df[k].code_id = c
                        /\ \A j \in (k + 1)..Len(df) : df[j].code_id # c].axial_code)]

\* int("") raises for the unresolved marker
map_axial(mapping, x) ==
    IF x = Unresolved THEN <<>> ELSE dict_get(mapping, x, <<>>)

attach_axial_to_row_level(row_df, retain_unique_with_axial) ==
    [k \in 1..Len(row_df) |->
        [open_code |-> row_df[k].open_code,
         code_id |-> row_df[k].code_id,
         retain |-> row_df[k].retain,
         exclude_reason |-> row_df[k].exclude_reason,
         axial_code |-> map_axial(axial_mapping(retain_unique_with_axial),
                                  row_df[k].code_id)]]

\* run.py up to Step 3: the unique codes are the non-empty texts of open_df in
\* order of first appearance; every one has a verdict
InitAxial ==
    /\ pc = "done"
    /\ IdleFunc
    /\ open_df \in SeqsUpTo({StrCell(t) : t \in AxialOpenTexts}, MaxRows) \ {<<>>}
    /\ unique_codes = dedupe_in_order(all_codes_of(open_df, 1, <<>>), 1, <<>>)
    /\ id2retain \in [1..Len(unique_codes) -> BOOLEAN]
    /\ id2reason = [i \in 1..Len(unique_codes) |-> IF id2retain[i] THEN "" ELSE "r"]
    /\ views = <<>>
    /\ axial_codes = <<>>
    /\ selective_result = <<>>
    /\ storyline_result = <<>>
    /\ written = {}
    /\ abort_cause = ""
    /\ batch_size = 1
    /\ max_retries_each_batch = 0
    /\ stack = <<>>
    /\ s = 0
    /\ poison = 0
    /\ truth = NoTruth

\* run.py 130-144: the oracle's id2axial, whatever it lists, then the join
\* onto the retained unique codes
AttachAxialToRetainUnique ==
    /\ pc = "filtered"
    /\ \E id2axial \in AxialMaps(Len(unique_codes)) :
          /\ arg' = [id2axial |-> id2axial]
          /\ res' = [retain_with_axial |->
                        attach_axial_to_retain_unique(
                            retained_rows(views.retain_unique_df), id2axial),
                     axial_summary |-> <<>>,
                     row_with_axial |-> <<>>]
    /\ pc' = "axial_attached"
    /\ UNCHANGED <<openVars, filterVars, runVars>>

\* run.py 148
MakeAxialSummary ==
    /\ pc = "axial_attached"
    /\ res' = [res EXCEPT !.axial_summary = make_axial_summary(res.retain_with_axial)]
    /\ pc' = "axial_summarised"
    /\ UNCHANGED <<arg, openVars, filterVars, runVars>>

\* run.py 152
AttachAxialToRowLevel ==
    /\ pc = "axial_summarised"
    /\ res' = [res EXCEPT !.row_with_axial =
                  attach_axial_to_row_level(views.row_df, res.retain_with_axial)]
    /\ pc' = "axial_rows_attached"
    /\ UNCHANGED <<arg, openVars, filterVars, runVars>>

NextAxial ==
    \/ BuildFilterOutputs
    \/ AttachAxialToRetainUnique
    \/ MakeAxialSummary
    \/ AttachAxialToRowLevel

SpecAxial == InitAxial /\ [][NextAxial]_vars

\* C25: in the row-level view a row has a non-empty axial_code only when its
\* code_id is resolved and its retain value is true, whatever ids the oracle
\* listed; a retained code receives exactly the label the oracle gave its id,
\* and the empty label when the oracle did not list it.
C25_AxialOnlyForRetained ==
    pc = "axial_rows_attached" =>
        /\ Len(res.row_with_axial) = Len(open_df)
        /\ \A k \in 1..Len(res.row_with_axial) :
              LET row == res.row_with_axial[k]
              IN  /\ row.axial_code # <<>> =>
                        /\ row.code_id \in 1..Len(unique_codes)
                        /\ row.retain
                        /\ id2retain[row.code_id]
                  /\ (row.retain /\ row.code_id \notin DOMAIN arg.id2axial) =>
                        row.axial_code = <<>>
                  /\ (row.retain /\ row.code_id \in DOMAIN arg.id2axial) =>
                        row.axial_code = arg.id2axial[row.code_id]
        /\ \A k \in 1..Len(res.retain_with_axial) :
              LET u == res.retain_with_axial[k]
              IN  /\ u.retain
                  /\ u.code_id \notin DOMAIN arg.id2axial => u.axial_code = <<>>

\* the oracle lists an excluded code, a retained one and an unknown id; only
\* the retained row carries a label
C25_Witness ==
    /\ pc = "axial_rows_attached"
    /\ Len(unique_codes) = 2
    /\ ~id2retain[1]
    /\ id2retain[2]
    /\ DOMAIN arg.id2axial = {1, 2, 3}
    /\ arg.id2axial[1] = <<"a">>
    /\ arg.id2axial[2] = <<"b">>
    /\ res.row_with_axial[1].code_id = 1
    /\ res.row_with_axial[1].axial_code = <<>>
    /\ res.row_with_axial[2].code_id = 2
    /\ res.row_with_axial[2].axial_code = <<"b">>

\* the rows of the retained unique view that carry the label
MembersOf(label) ==
    {k \in 1..Len(res.retain_with_axial) :
        strip(res.retain_with_axial[k].axial_code) = label}

\* C26: the axial summary has exactly one row per distinct non-empty
\* axial_code of the retained unique view, none for the empty axial_code, and
\* n_members of a row is the number of distinct open_code texts that carry
\* its axial_code.
C26_SummaryRowsAndCounts ==
    pc \in {"axial_summarised", "axial_rows_attached"} =>
        LET labels == {strip(res.retain_with_axial[k].axial_code) :
                          k \in 1..Len(res.retain_with_axial)} \ {<<>>}
        IN  /\ {res.axial_summary[i].axial_code : i \in 1..Len(res.axial_summary)} = labels
            /\ Len(res.axial_summary) = Cardinality(labels)
            /\ \A i \in 1..Len(res.axial_summary) :
                  res.axial_summary[i].n_members =
                      Cardinality({res.retain_with_axial[k].open_code :
                                      k \in MembersOf(res.axial_summary[i].axial_code)})

----------------------------------------------------------------------------
(* Claims about the number of oracle calls of one top-level batch *)

\* R * (2n - 1)
CallBound(n) == max_retries_each_batch * (2 * n - 1)

\* the step from this state is one call of _call_filter_batch: the innermost
\* process_range is in its retry loop and has an attempt left
IsOracleCall ==
    /\ pc = "batch"
    /\ stack # <<>>
    /\ Top(stack).phase = "try"
    /\ Top(stack).attempt < max_retries_each_batch

\* the calls the frame at depth i of stk can still make or cause: the innermost
\* frame has its own remaining attempts and its two halves ahead, a caller
\* waiting for its left half has its right half ahead, a caller waiting for
\* its right half has nothing ahead
CallsAhead(stk, i) ==
    LET f == stk[i]
        n == range_len(f.start_idx, f.end_idx)
    IN  IF i = Len(stk) THEN CallBound(n) - f.attempt
        ELSE IF f.phase = "left" THEN CallBound(n - (n \div 2))
        ELSE 0

RECURSIVE SumCallsAhead(_, _)
SumCallsAhead(stk, i) ==
    IF i = 0 THEN 0 ELSE CallsAhead(stk, i) + SumCallsAhead(stk, i - 1)

Remaining(stk) == SumCallsAhead(stk, Len(stk))

\* C27: a top-level batch of n items starts with R * (2n - 1) calls ahead;
\* every oracle call takes at least one off that budget, a failed call
\* exactly one, no other step of process_range changes it, and it never goes
\* below zero: a batch makes at most R * (2n - 1) calls, and exactly that
\* many when every call fails.
C27_CallBound ==
    [][/\ Remaining(stack') >= 0
       /\ (pc = "loop" /\ stack' # <<>>) =>
             Remaining(stack') =
                 CallBound(range_len(s, Min(s + batch_size, Len(unique_codes))))
       /\ IsOracleCall => Remaining(stack') <= Remaining(stack) - 1
       /\ (IsOracleCall /\ stack' = SetTop(stack, [Top(stack) EXCEPT !.attempt = @ + 1])) =>
             Remaining(stack') = Remaining(stack) - 1
       /\ (pc = "batch" /\ ~IsOracleCall) => Remaining(stack') = Remaining(stack)
       /\ pc' = "sleep" => Remaining(stack') = 0
      ]_vars

\* a batch of three items with two attempts per range in which every one of
\* the 2 * (2 * 3 - 1) calls failed
C27_Witness ==
    /\ pc = "sleep"
    /\ s = 0
    /\ NumCodes = 3
    /\ batch_size = 3
    /\ max_retries_each_batch = 2
    /\ \A i \in 1..3 : HoldsSingleDefault(i)

====
